---- MODULE Spec2Model ----
(***************************************************************************)
(* A model of the OpenSBP post-processor                                   *)
(* (src/Mod/CAM/Path/Post/scripts/opensbp_post.py).                        *)
(*                                                                         *)
(* Text is modelled as a sequence of lines, a line as a sequence of string *)
(* tokens: every character that a claim looks at (digits, commas, the      *)
(* prefix and the format code of a move) is a token of its own, fixed      *)
(* phrases are one token.  A python number is the pair <<num, den>> of a   *)
(* fraction in lowest terms, python's None is the empty tuple.             *)
(***************************************************************************)
EXTENDS Integers, Sequences, FiniteSets, TLC

(* ------------------------------ bounds -------------------------------- *)

\* commands translated in one export run
MaxCmds == 4
\* options given in the argument string of one export run
MaxOpts == 2
\* top-level objects posted in one export run
MaxObjs == 2
\* commands translated in one export run of the scenario of the moves
MaxMoves == 3

(* --------------------------- python values ---------------------------- *)

None == <<>>

Abs(n) == IF n < 0 THEN -n ELSE n

RECURSIVE GCD(_, _)
GCD(a, b) == IF b = 0 THEN a ELSE GCD(b, a % b)

\* the fraction n/d (d > 0) in lowest terms
Frac(n, d) == LET g == GCD(Abs(n), d) IN <<n \div g, d \div g>>

Num(v) == <<v, 1>>

\* int(x): truncation towards zero
int(q) == IF q[1] < 0 THEN -(Abs(q[1]) \div q[2]) ELSE q[1] \div q[2]

(* ------------------------------- text --------------------------------- *)

Digit(d) == <<"0", "1", "2", "3", "4", "5", "6", "7", "8", "9">>[d + 1]

RECURSIVE Pow10(_)
Pow10(p) == IF p = 0 THEN 1 ELSE 10 * Pow10(p - 1)

\* the decimal digits of a natural number
RECURSIVE Digits(_)
Digits(n) == IF n < 10 THEN <<Digit(n)>> ELSE Digits(n \div 10) \o <<Digit(n % 10)>>

\* n written with exactly p digits, zero padded on the left
RECURSIVE PadDigits(_, _)
PadDigits(n, p) == IF p = 0 THEN <<>> ELSE PadDigits(n \div 10, p - 1) \o <<Digit(n % 10)>>

\* str(n) of an integer
str(n) == (IF n < 0 THEN <<"-">> ELSE <<>>) \o Digits(Abs(n))

\* n/d (n >= 0, d > 0) rounded to the nearest integer, ties to even
RoundHalfEven(n, d) ==
    LET q == n \div d
        r == n % d
    IN  IF 2 * r > d \/ (2 * r = d /\ q % 2 = 1) THEN q + 1 ELSE q

\* format(q, f".{p}f"): fixed-point text with p decimal digits
format(q, p) ==
    LET s == RoundHalfEven(Abs(q[1]) * Pow10(p), q[2])
    IN  (IF q[1] < 0 THEN <<"-">> ELSE <<>>)
        \o Digits(s \div Pow10(p))
        \o (IF p > 0 THEN <<".">> \o PadDigits(s % Pow10(p), p) ELSE <<>>)

\* sep.join(parts)
RECURSIVE join(_, _)
join(sep, parts) ==
    IF parts = <<>> THEN <<>>
    ELSE IF Len(parts) = 1 THEN parts[1]
    ELSE parts[1] \o <<sep>> \o join(sep, Tail(parts))

\* s.split(sep)
RECURSIVE split(_, _)
split(s, sep) ==
    IF \A i \in DOMAIN s : s[i] # sep THEN <<s>>
    ELSE LET k == CHOOSE i \in DOMAIN s : s[i] = sep /\ \A j \in 1..(i - 1) : s[j] # sep
         IN  <<SubSeq(s, 1, k - 1)>> \o split(SubSeq(s, k + 1, Len(s)), sep)

(* ------------------------- module-level state ------------------------- *)

VARIABLES
    Arguments,       \* the parsed argument string of the last export
    PRECISION,       \* global PRECISION
    SKIP_UNKNOWN,    \* global SKIP_UNKNOWN
    GetValue,        \* global GetValue: the name of the conversion function
    FloatPrecision,  \* global FloatPrecision: the digit count of the format spec
    UNDER_UNITTEST,  \* whether the test harness has set the global of that name
    CurrentState,    \* global CurrentState (a dict)
    pc,              \* where export() stands
    last_gcode,      \* local of the running parse_list_of_commands
    ncmds,           \* commands taken from the command lists in this run
    nobjs,           \* objects of objectslist taken in this run
    obj,             \* the loop variable of "for obj in objectslist"
    ntool,           \* tool changes handled in this run
    cmd,             \* the command of the last dispatcher step
    outcome,         \* what the dispatcher did with it
    dup,             \* whether its raw text was that of last_gcode
    axis,            \* the included-axis string of the last move() call
    machine,         \* where the rapid and feed moves of the run have brought the machine
    emitted,         \* the text added to gcode by the last step
    error,           \* the exception that ended the run, or None
    todo,            \* the commands left of the list made from an argument
    gcode,           \* local gcode of export: the stages of its blocks, in text order
    final,           \* what export returned, in a one-tuple, or None
    sink,            \* what the output file holds, in a one-tuple, or None
    nruns            \* calls of export that have ended in this process

\* the module's globals that export() sets only through processArguments
globals == <<Arguments, PRECISION, SKIP_UNKNOWN, GetValue, FloatPrecision, UNDER_UNITTEST>>

\* the record of the last dispatcher step
step == <<cmd, outcome, dup, axis>>

\* the output of export
out == <<gcode, final, sink>>

vars == <<globals, CurrentState, pc, last_gcode, ncmds, nobjs, obj, ntool, step, machine,
          emitted, error, todo, out, nruns>>

ALLOWED_AXIS == <<"X", "Y", "Z", "A", "B">>

\* the position export() takes the machine to be at when it resets CurrentState: by
\* the lines written so far (out) and by the commands read so far (inp)
Origin ==
    LET zero == [p \in {"X", "Y", "Z", "A", "B"} |-> <<0, 1>>] IN [out |-> zero, inp |-> zero]

(* ----------------------------- arguments ------------------------------ *)

\* the parser's defaults
ParserDefaults ==
    [header |-> TRUE, comments |-> FALSE, show_editor |-> TRUE, precision |-> None,
     preamble |-> None, return_to |-> None, postamble |-> None, native_postamble |-> None,
     metric |-> FALSE, inches |-> FALSE, axis_modal |-> FALSE, modal |-> FALSE,
     ab_is_distance |-> FALSE, abort_on_unknown |-> TRUE, skip_unknown |-> None,
     toolchanger |-> FALSE, spindle_controller |-> FALSE, wait_for_spindle |-> 3,
     gcode_comments |-> FALSE]

\* parser.parse_args of an argument string, given as the set of its options
parse_args(argstring) ==
    [ParserDefaults EXCEPT
        !.header = ("--no-header" \notin argstring),
        !.comments = ("--comments" \in argstring),
        !.show_editor = ("--no-show-editor" \notin argstring),
        !.precision = IF "--precision=2" \in argstring THEN <<"2">> ELSE None,
        !.preamble = IF "--preamble=G91\\nG0 X10" \in argstring
                     THEN <<<<"G91">>, <<"G0", " ", "X", "1", "0">>>>
                     ELSE IF "--preamble=G0 X?" \in argstring
                     THEN <<<<"G0", " ", "X", "?">>>> ELSE None,
        !.return_to = IF "--return-to=,5" \in argstring THEN <<",", "5">>
                      ELSE IF "--return-to=x" \in argstring THEN <<"x">>
                      ELSE IF "--return-to=1,,,,,6" \in argstring
                      THEN <<"1", ",", ",", ",", ",", ",", "6">>
                      ELSE IF "--return-to=," \in argstring THEN <<",">>
                      ELSE IF "--return-to=1,,3,,4" \in argstring
                      THEN <<"1", ",", ",", "3", ",", ",", "4">>
                      ELSE IF "--return-to=,5,y" \in argstring THEN <<",", "5", ",", "y">>
                      ELSE IF "--return-to=1,,,,,x" \in argstring
                      THEN <<"1", ",", ",", ",", ",", ",", "x">>
                      ELSE None,
        !.postamble = IF "--postamble=G90\\nG0 X0" \in argstring
                      THEN <<<<"G90">>, <<"G0", " ", "X", "0">>>> ELSE None,
        !.native_postamble = IF "--native-postamble=FB" \in argstring
                             THEN <<<<"FB">>>> ELSE None,
        !.metric = ("--metric" \in argstring),
        !.inches = ("--inches" \in argstring),
        !.axis_modal = ("--axis-modal" \in argstring),
        !.modal = ("--modal" \in argstring),
        !.ab_is_distance = ("--ab-is-distance" \in argstring),
        !.abort_on_unknown = ("--no-abort-on-unknown" \notin argstring),
        !.skip_unknown = IF "--skip-unknown=G55,G56" \in argstring
                         THEN <<"G55", ",", "G56">> ELSE None,
        !.toolchanger = ("--toolchanger" \in argstring),
        !.spindle_controller = ("--spindle-controller" \in argstring),
        !.wait_for_spindle = IF "--wait-for-spindle=0" \in argstring THEN 0
                             ELSE IF "--wait-for-spindle=-1" \in argstring THEN -1 ELSE 3,
        !.gcode_comments = ("--gcode-comments" \in argstring)]

\* int(s) of a digit string
RECURSIVE int_of_str(_)
int_of_str(s) ==
    IF s = <<>> THEN 0
    ELSE 10 * int_of_str(SubSeq(s, 1, Len(s) - 1))
         + (CHOOSE d \in 0..9 : Digit(d) = s[Len(s)])

\* the globals processArguments leaves, as a record
processArguments(argstring) ==
    LET args == parse_args(argstring)
        p1 == IF args.inches THEN 4 ELSE PRECISION
        g1 == IF args.inches THEN "getImperialValue" ELSE GetValue
        p2 == IF args.metric THEN 3 ELSE p1
        g2 == IF args.metric THEN "getMetricValue" ELSE g1
        p3 == IF args.precision # None THEN int_of_str(args.precision) ELSE p2
    IN  [Arguments |-> args, PRECISION |-> p3, GetValue |-> g2, FloatPrecision |-> p3,
         SKIP_UNKNOWN |-> IF args.skip_unknown # None
                          THEN split(args.skip_unknown, ",")
                          ELSE SKIP_UNKNOWN]

getMetricValue(val) == val

getImperialValue(val) == Frac(val[1] * 10, val[2] * 254)

\* GetValue(val): the call through the global
GetValueOf(val) ==
    IF GetValue = "getImperialValue" THEN getImperialValue(val) ELSE getMetricValue(val)

(* ------------------------------ commands ------------------------------ *)

\* A Path.Command: a Name and Parameters, a map from parameter letters to numbers.
Command(name, params) == [Name |-> name, Parameters |-> params]

Has(command, p) == p \in DOMAIN command.Parameters

\* whether float(s) takes the text s: digits, a sign before them allowed
IsFloat(s) ==
    LET body == IF s # <<>> /\ s[1] = "-" THEN Tail(s) ELSE s
    IN  body # <<>> /\ \A i \in DOMAIN body : \E d \in 0..9 : Digit(d) = body[i]

\* float(s) of such a text
float(s) == IF s[1] = "-" THEN Num(0 - int_of_str(Tail(s))) ELSE Num(int_of_str(s))

\* str_to_gcode(s) of export: the command of one line of gcode, a name and then
\* words of a letter and a number; a word that is no number raises ValueError
str_to_gcode(s) ==
    LET words == split(s, " ")
        given == {i \in 2..Len(words) : words[i] # <<>>}
        letters == {words[i][1] : i \in given}
        word(p) == words[CHOOSE i \in given : words[i][1] = p]
    IN  IF \E i \in given : ~IsFloat(Tail(words[i]))
        THEN [command |-> None, raised |-> <<"ValueError">>]
        ELSE [command |-> Command(words[1][1], [p \in letters |-> float(Tail(word(p)))]),
              raised |-> None]

\* the commands of the lines of a preamble or postamble, or the exception of the
\* first line that has one
commands_of(lines) ==
    IF \E i \in DOMAIN lines : str_to_gcode(lines[i]).raised # None
    THEN [commands |-> <<>>, raised |-> <<"ValueError">>]
    ELSE [commands |-> [i \in DOMAIN lines |-> str_to_gcode(lines[i]).command],
          raised |-> None]

\* a variant of return_to_command that takes an empty coordinate as 0
return_to_command_zero(value) ==
    LET fields == split(value, ",")
        given == DOMAIN fields
        first == {i \in given : i <= 5}
        number(f) == IF f = <<>> THEN Num(0) ELSE float(f)
    IN  IF \E i \in first : fields[i] # <<>> /\ ~IsFloat(fields[i])
        THEN [command |-> None, skipped |-> TRUE, raised |-> None]
        ELSE IF \E i \in given : i > 5
        THEN [command |-> None, skipped |-> FALSE, raised |-> <<"IndexError">>]
        ELSE [command |-> Command("G0", [p \in {ALLOWED_AXIS[i] : i \in first} |->
                                          number(fields[CHOOSE i \in first : ALLOWED_AXIS[i] = p])]),
              skipped |-> FALSE, raised |-> None]

\* the command export makes of --return-to: a rapid move to the coordinates given.
\* skipped: a coordinate is no number (the ValueError export catches);
\* raised: a sixth coordinate is given.
return_to_command(value) ==
    LET fields == split(value, ",")
        given == {i \in DOMAIN fields : fields[i] # <<>>}
        first == {i \in given : i <= 5}
    IN  IF \E i \in first : ~IsFloat(fields[i])
        THEN [command |-> None, skipped |-> TRUE, raised |-> None]
        ELSE IF \E i \in given : i > 5
        THEN [command |-> None, skipped |-> FALSE, raised |-> <<"IndexError">>]
        ELSE [command |-> Command("G0", [p \in {ALLOWED_AXIS[i] : i \in first} |->
                                          float(fields[CHOOSE i \in first : ALLOWED_AXIS[i] = p])]),
              skipped |-> FALSE, raised |-> None]

\* the parameter letters in the order Path.Command keeps them (sorted)
Letters == <<"A", "B", "C", "F", "I", "J", "P", "S", "T", "U", "V", "W", "X", "Y", "Z">>

RECURSIVE ParamText(_, _)
ParamText(command, i) ==
    IF i > Len(Letters) THEN <<>>
    ELSE (IF Has(command, Letters[i])
          THEN <<" ", Letters[i]>> \o format(command.Parameters[Letters[i]], 6)
          ELSE <<>>)
         \o ParamText(command, i + 1)

\* command.toGCode(): the name, then each parameter with six decimal digits
toGCode(command) == <<command.Name>> \o ParamText(command, 1)

\* names of the commands that are comments, with the text between their parentheses
CommentNames == {"(comment)"}

startswith_paren(name) == name \in CommentNames

\* command[1:-1] of a comment's name
strip_parens(name) == IF name = "(comment)" THEN "comment" ELSE name

(* ------------------------------ handlers ------------------------------ *)

\* What a handler returns: the text, the CurrentState it leaves, and the exception
\* it raised (None when it returned).
Result(txt, cs, raised) == [txt |-> txt, cs |-> cs, raised |-> raised]

\* a variant of comment that does not know force
comment_unforced(text, force) ==
    IF Arguments.comments THEN <<<<"'">> \o text>> ELSE <<>>

\* comment(command, keepparens, force) of a str given as tokens
comment(text, force) ==
    IF Arguments.comments \/ force THEN <<<<"'">> \o text>> ELSE <<>>

\* comment(command) of a Path.Command: its name without the parentheses
comment_command(command) ==
    IF Arguments.comments THEN <<<<"'", strip_parens(command.Name)>>>> ELSE <<>>

gcodecomment(command) ==
    IF Arguments.gcode_comments THEN <<" '">> \o toGCode(command) ELSE <<>>

\* "p in axis" for a one-letter p
InAxis(p, ax) == \E i \in DOMAIN ax : ax[i] = p

\* a variant of move_includes without axis-value elision
move_includes_all(command, p) == Has(command, p)

\* a variant of move_includes that compares with the position in both modes
move_includes_position(command, p) ==
    /\ Has(command, p)
    /\ Arguments.axis_modal => command.Parameters[p] # CurrentState[p]

\* whether move() adds the letter p to axis
move_includes(command, p) ==
    /\ Has(command, p)
    /\ Arguments.axis_modal =>
          \/ CurrentState["Absolute"] /\ command.Parameters[p] # CurrentState[p]
          \/ ~CurrentState["Absolute"] /\ command.Parameters[p] # Num(0)

\* the string axis that move() builds
move_axis(command) == SelectSeq(ALLOWED_AXIS, LAMBDA p : move_includes(command, p))

\* a variant of move_value that converts A and B like the linear axes
move_value_linear(command, key) == format(GetValueOf(command.Parameters[key]), FloatPrecision)

\* the value of one axis as the move line writes it
move_value(command, key) ==
    IF key \in {"A", "B"} /\ ~Arguments.ab_is_distance
    THEN format(command.Parameters[key], FloatPrecision)
    ELSE format(GetValueOf(command.Parameters[key]), FloatPrecision)

\* txt += "," + format(...) if key in axis else '' , for each key in turn
RECURSIVE move_slots(_, _, _)
move_slots(command, ax, keys) ==
    IF keys = <<>> THEN <<>>
    ELSE (IF InAxis(keys[1], ax) THEN <<",">> \o move_value(command, keys[1]) ELSE <<>>)
         \o move_slots(command, ax, Tail(keys))

\* a variant of move_pref that knows the rapid move under one name only
move_pref_short(command) == IF command.Name = "G0" THEN "J" ELSE "M"

\* the prefix of the move line
move_pref(command) == IF command.Name \in {"G0", "G00"} THEN "J" ELSE "M"

\* a variant of move_text that writes the two values of an XY move in the other order
move_text_yx(command, ax) ==
    IF ax = <<"X", "Y">>
    THEN <<move_pref(command), "2", ",">>
         \o format(GetValueOf(command.Parameters["Y"]), FloatPrecision)
         \o <<",">> \o format(GetValueOf(command.Parameters["X"]), FloatPrecision)
    ELSE <<>>

\* a variant of move_text that knows of the three-slot line for XZ and XYZ only
move_text_no_yz(command, ax) ==
    LET pref == move_pref(command)
    IN  IF Len(ax) = 1 THEN <<pref, ax[1], ",">> \o move_value(command, ax[1])
        ELSE IF ax = <<"X", "Y">>
             THEN <<pref, "2", ",">> \o format(GetValueOf(command.Parameters["X"]), FloatPrecision)
                  \o <<",">> \o format(GetValueOf(command.Parameters["Y"]), FloatPrecision)
        ELSE IF ax \in {<<"X", "Z">>, <<"X", "Y", "Z">>}
             THEN <<pref, "3">> \o move_slots(command, ax, <<"X", "Y", "Z">>)
        ELSE IF (InAxis("A", ax) \/ InAxis("B", ax)) /\ Len(ax) > 1
                /\ ~\E c \in {"C", "U", "V", "W"} : InAxis(c, ax)
             THEN <<pref, "5">> \o move_slots(command, ax, <<"X", "Y", "Z", "A", "B">>)
        ELSE <<>>

\* the text of the move itself, before the line ending
move_text(command, ax) ==
    LET pref == move_pref(command)
    IN  IF Len(ax) = 1 THEN <<pref, ax[1], ",">> \o move_value(command, ax[1])
        ELSE IF ax = <<"X", "Y">>
             THEN <<pref, "2", ",">> \o format(GetValueOf(command.Parameters["X"]), FloatPrecision)
                  \o <<",">> \o format(GetValueOf(command.Parameters["Y"]), FloatPrecision)
        ELSE IF ax \in {<<"X", "Z">>, <<"Y", "Z">>, <<"X", "Y", "Z">>}
             THEN <<pref, "3">> \o move_slots(command, ax, <<"X", "Y", "Z">>)
        ELSE IF (InAxis("A", ax) \/ InAxis("B", ax)) /\ Len(ax) > 1
                /\ ~\E c \in {"C", "U", "V", "W"} : InAxis(c, ax)
             THEN <<pref, "5">> \o move_slots(command, ax, <<"X", "Y", "Z", "A", "B">>)
        ELSE <<>>

\* a variant of move_speed that looks at the letters of the command and not at the
\* included axes
move_speed_letters(command, ax) ==
    LET movetype == IF command.Name \in {"G1", "G01"} THEN "MS" ELSE "JS"
        speed_val == GetValueOf(command.Parameters["F"])
        zkey == IF movetype = "MS" THEN "MSZ" ELSE "JSZ"
        xykey == IF movetype = "MS" THEN "MSXY" ELSE "JSXY"
        zset == Has(command, "Z") /\ CurrentState[zkey] # speed_val
        xyset == (Has(command, "X") \/ Has(command, "Y")) /\ CurrentState[xykey] # speed_val
        zspeed == IF zset THEN format(speed_val, 6) ELSE <<>>
        xyspeed == IF xyset THEN format(speed_val, 6) ELSE <<>>
        cs1 == IF zset THEN [CurrentState EXCEPT ![zkey] = speed_val] ELSE CurrentState
        cs2 == IF xyset THEN [cs1 EXCEPT ![xykey] = speed_val] ELSE cs1
    IN  [cs |-> cs2,
         txt |-> IF zspeed # <<>> \/ xyspeed # <<>>
                 THEN <<<<movetype, ",">> \o xyspeed \o <<",">> \o zspeed
                        \o gcodecomment(command)>>
                 ELSE <<>>]

\* a variant of move_speed that knows the feed move under one name only
move_speed_short(command, ax) ==
    LET movetype == IF command.Name = "G1" THEN "MS" ELSE "JS"
        speed_val == GetValueOf(command.Parameters["F"])
        zkey == IF movetype = "MS" THEN "MSZ" ELSE "JSZ"
        xykey == IF movetype = "MS" THEN "MSXY" ELSE "JSXY"
        zset == InAxis("Z", ax) /\ CurrentState[zkey] # speed_val
        xyset == (InAxis("X", ax) \/ InAxis("Y", ax)) /\ CurrentState[xykey] # speed_val
        zspeed == IF zset THEN format(speed_val, 6) ELSE <<>>
        xyspeed == IF xyset THEN format(speed_val, 6) ELSE <<>>
        cs1 == IF zset THEN [CurrentState EXCEPT ![zkey] = speed_val] ELSE CurrentState
        cs2 == IF xyset THEN [cs1 EXCEPT ![xykey] = speed_val] ELSE cs1
    IN  [cs |-> cs2,
         txt |-> IF zspeed # <<>> \/ xyspeed # <<>>
                 THEN <<<<movetype, ",">> \o xyspeed \o <<",">> \o zspeed
                        \o gcodecomment(command)>>
                 ELSE <<>>]

\* the speed change of move(): the registers it leaves and its line
move_speed(command, ax) ==
    LET movetype == IF command.Name \in {"G1", "G01"} THEN "MS" ELSE "JS"
        speed_val == GetValueOf(command.Parameters["F"])
        zkey == IF movetype = "MS" THEN "MSZ" ELSE "JSZ"
        xykey == IF movetype = "MS" THEN "MSXY" ELSE "JSXY"
        zset == InAxis("Z", ax) /\ CurrentState[zkey] # speed_val
        xyset == (InAxis("X", ax) \/ InAxis("Y", ax)) /\ CurrentState[xykey] # speed_val
        zspeed == IF zset THEN format(speed_val, 6) ELSE <<>>
        xyspeed == IF xyset THEN format(speed_val, 6) ELSE <<>>
        cs1 == IF zset THEN [CurrentState EXCEPT ![zkey] = speed_val] ELSE CurrentState
        cs2 == IF xyset THEN [cs1 EXCEPT ![xykey] = speed_val] ELSE cs1
    IN  [cs |-> cs2,
         txt |-> IF zspeed # <<>> \/ xyspeed # <<>>
                 THEN <<<<movetype, ",">> \o xyspeed \o <<",">> \o zspeed
                        \o gcodecomment(command)>>
                 ELSE <<>>]

\* a variant of move that changes the speed before it looks for C, U, V and W
move_speed_first(command) ==
    LET ax == move_axis(command)
        sp == IF Has(command, "F") THEN move_speed(command, ax)
              ELSE [cs |-> CurrentState, txt |-> <<>>]
        mv == move_text(command, ax)
    IN  IF \E p \in {"C", "U", "V", "W"} : Has(command, p)
        THEN Result(sp.txt, sp.cs, None)
        ELSE Result(sp.txt \o (IF mv # <<>> THEN <<mv \o gcodecomment(command)>> ELSE <<>>),
                    sp.cs, None)

move(command) ==
    IF \E p \in {"C", "U", "V", "W"} : Has(command, p)
    THEN Result(<<>>, CurrentState, None)
    ELSE LET ax == move_axis(command)
             sp == IF Has(command, "F") THEN move_speed(command, ax)
                   ELSE [cs |-> CurrentState, txt |-> <<>>]
             mv == move_text(command, ax)
         IN  Result(sp.txt \o (IF mv # <<>> THEN <<mv \o gcodecomment(command)>> ELSE <<>>),
                    sp.cs, None)

\* a variant of arc that leaves the place of a missing parameter blank
arc_blank(command) ==
    LET dirstring == IF command.Name = "G2" THEN "1" ELSE "-1"
        value(p) == IF Has(command, p)
                    THEN format(GetValueOf(command.Parameters[p]), FloatPrecision) ELSE <<>>
    IN  Result(<<<<"CG", ",", ",">> \o value("X") \o <<",">> \o value("Y") \o <<",">>
                 \o value("I") \o <<",">> \o value("J") \o <<",">> \o <<"T", ",", dirstring>>>>,
               CurrentState, None)

arc(command) ==
    IF \E p \in {"X", "Y", "I", "J"} : ~Has(command, p)
    THEN Result(<<>>, CurrentState, <<"KeyError">>)
    ELSE LET dirstring == IF command.Name = "G2" THEN "1" ELSE "-1"
         IN  Result(<<<<"CG", ",", ",">>
                      \o format(GetValueOf(command.Parameters["X"]), FloatPrecision) \o <<",">>
                      \o format(GetValueOf(command.Parameters["Y"]), FloatPrecision) \o <<",">>
                      \o format(GetValueOf(command.Parameters["I"]), FloatPrecision) \o <<",">>
                      \o format(GetValueOf(command.Parameters["J"]), FloatPrecision) \o <<",">>
                      \o <<"T", ",", dirstring>>>>,
                    CurrentState, None)

\* the characters re.sub(r'[^A-Za-z0-9/_ .-]', '', tool_name) keeps
NameChars ==
    {"A", "B", "C", "D", "E", "F", "G", "H", "I", "J", "K", "L", "M", "N", "O", "P", "Q",
     "R", "S", "T", "U", "V", "W", "X", "Y", "Z", "a", "b", "c", "d", "e", "f", "g", "h",
     "i", "j", "k", "l", "m", "n", "o", "p", "q", "r", "s", "t", "u", "v", "w", "x", "y",
     "z", "0", "1", "2", "3", "4", "5", "6", "7", "8", "9", "/", "_", " ", ".", "-"}

\* controller (obj in the source) is None or a one-tuple holding a tool controller
set_speeds_before_tool_change(controller) ==
    IF UNDER_UNITTEST /\ controller = None THEN Result(<<>>, CurrentState, None)
    ELSE IF controller = None THEN Result(<<>>, CurrentState, <<"AttributeError">>)
    ELSE LET o == controller[1]
             hf == o.HorizFeed # Num(0)
             hr == o.HorizRapid # Num(0)
             vr == o.VertRapid # Num(0)
             vs == <<IF hf THEN format(GetValueOf(o.HorizFeed), 4) ELSE <<>>,
                     IF hf THEN format(GetValueOf(o.VertFeed), 4) ELSE <<>>,
                     <<>>,
                     <<>>,
                     IF hr THEN format(GetValueOf(o.HorizRapid), 4) ELSE <<>>,
                     IF vr THEN format(GetValueOf(o.VertRapid), 4) ELSE <<>>>>
         IN  Result(comment(<<"(set speeds: ">> \o o.Label \o <<")">>, FALSE)
                    \o (IF hf THEN <<>> ELSE comment(<<"(no HorizFeed)">>, FALSE))
                    \o (IF hf THEN <<>> ELSE comment(<<"(no VertFeed)">>, FALSE))
                    \o (IF hr THEN <<>> ELSE comment(<<"(no HorizRapid)">>, FALSE))
                    \o (IF vr THEN <<>> ELSE comment(<<"(no VertRapid)">>, FALSE))
                    \o (IF hf \/ hr \/ vr THEN <<<<"VS", ",">> \o join(",", vs)>> ELSE <<>>),
                    CurrentState, None)

\* a variant of tool_change_state that does not record the tool
tool_change_state_forgets(tool_number) == CurrentState

\* the CurrentState tool_change() leaves
tool_change_state(tool_number) ==
    IF Arguments.toolchanger THEN CurrentState
    ELSE [CurrentState EXCEPT !["Tool"] = Num(tool_number)]

tool_change(command) ==
    IF ~Has(command, "T") THEN Result(<<>>, CurrentState, <<"KeyError">>)
    ELSE LET tool_number == int(command.Parameters["T"])
             tc == CurrentState["ToolController"]
             tool_name == IF tc # None THEN tc[1].Tool.Label ELSE str(tool_number)
             head == comment(<<"(tool change)">>, FALSE)
                     \o <<<<"&Tool=">> \o str(tool_number) \o gcodecomment(command)>>
             change ==
                 IF Arguments.toolchanger THEN <<<<"C9 'toolchanger">>>>
                 ELSE IF CurrentState["Tool"] = None
                      THEN comment(<<"(First change tool, should already be #">>
                                   \o str(tool_number) \o <<": ">> \o tool_name \o <<")">>, FALSE)
                      ELSE <<<<"'Change tool to #">> \o str(tool_number) \o <<": ">> \o tool_name,
                             <<"PAUSE">>>>
             cs == tool_change_state(tool_number)
             clean == SelectSeq(tool_name, LAMBDA ch : ch \in NameChars)
             speeds == set_speeds_before_tool_change(tc)
         IN  IF speeds.raised # None THEN Result(<<>>, cs, speeds.raised)
             ELSE Result(head \o change \o <<<<"&ToolName=\"">> \o clean \o <<"\"">>>>
                         \o speeds.txt, cs, None)

\* a variant of absolute_positions that writes its lines and leaves the mode
absolute_positions_kept(command) ==
    Result(comment(<<"Absolute Positions">>, FALSE) \o <<<<"SA 'ABSOLUTE">>>>,
           CurrentState, None)

absolute_positions(command) ==
    Result(comment(<<"Absolute Positions">>, FALSE) \o <<<<"SA 'ABSOLUTE">>>>,
           [CurrentState EXCEPT !["Absolute"] = TRUE], None)

relative_positions(command) ==
    Result(comment(<<"Relative Positions">>, FALSE) \o <<<<"SR 'RELATIVE">>>>,
           [CurrentState EXCEPT !["Absolute"] = FALSE], None)

\* a variant of spindle that pauses for every wait but zero
spindle_nonzero(command) ==
    IF ~Has(command, "S") THEN Result(<<>>, CurrentState, <<"KeyError">>)
    ELSE LET speed == str(int(command.Parameters["S"]))
         IN  Result(<<<<"TR", ",">> \o speed>>
                    \o (IF Arguments.spindle_controller
                        THEN <<<<"C6 'spindle-controller">>>>
                             \o (IF Arguments.wait_for_spindle # 0
                                 THEN <<<<"PAUSE ">> \o str(Arguments.wait_for_spindle)>>
                                 ELSE <<>>)
                        ELSE <<<<"'Change spindle speed to ">> \o speed, <<"PAUSE">>>>),
                    CurrentState, None)

spindle(command) ==
    IF ~Has(command, "S") THEN Result(<<>>, CurrentState, <<"KeyError">>)
    ELSE LET speed == str(int(command.Parameters["S"]))
         IN  Result(<<<<"TR", ",">> \o speed>>
                    \o (IF Arguments.spindle_controller
                        THEN <<<<"C6 'spindle-controller">>>>
                             \o (IF Arguments.wait_for_spindle > 0
                                 THEN <<<<"PAUSE ">> \o str(Arguments.wait_for_spindle)>>
                                 ELSE <<>>)
                        ELSE <<<<"'Change spindle speed to ">> \o speed, <<"PAUSE">>>>),
                    CurrentState, None)

\* the offset index coordinate_system() resolves a name to; None when no branch binds it
which_offset(command) ==
    LET gpart == command.Name
    IN  IF gpart = "G54.1"
        THEN (IF Has(command, "P") THEN <<int(command.Parameters["P"])>> ELSE None)
        ELSE IF gpart \in {"G54", "G55", "G56", "G57", "G58"}
             THEN <<CHOOSE n \in 1..5 : gpart = <<"G54", "G55", "G56", "G57", "G58">>[n]>>
        ELSE IF gpart = "G59"
             THEN (IF Has(command, "P") THEN <<int(command.Parameters["P"])>> ELSE <<6>>)
        ELSE IF gpart \in {"G59.1", "G59.2", "G59.3"}
             THEN <<6 + (CHOOSE n \in 1..3 : gpart = <<"G59.1", "G59.2", "G59.3">>[n])>>
        ELSE None

coordinate_system(command) ==
    LET which == which_offset(command)
    IN  IF which = None
        THEN Result(<<>>, CurrentState,
                    IF command.Name = "G54.1" THEN <<"KeyError">> ELSE <<"UnboundLocalError">>)
        ELSE IF which[1] # 1 THEN Result(<<>>, CurrentState, None)
        ELSE Result(comment(<<"G54 has no effect">> \o gcodecomment(command), FALSE),
                    CurrentState, None)

\* Supported Commands: the name of the handler of each
scommands ==
    [n \in {"G0", "G1", "G2", "G3", "M6", "M3", "G00", "G01", "G02", "G03", "M06", "M03",
            "G91", "G90", "G54", "comment"} |->
        IF n \in {"G0", "G1", "G00", "G01"} THEN "move"
        ELSE IF n \in {"G2", "G3", "G02", "G03"} THEN "arc"
        ELSE IF n \in {"M6", "M06"} THEN "tool_change"
        ELSE IF n \in {"M3", "M03"} THEN "spindle"
        ELSE IF n = "G91" THEN "relative_positions"
        ELSE IF n = "G90" THEN "absolute_positions"
        ELSE IF n = "G54" THEN "coordinate_system"
        ELSE "comment"]

\* scommands[command]['fn'](c)
call(fn, c) ==
    IF fn = "move" THEN move(c)
    ELSE IF fn = "arc" THEN arc(c)
    ELSE IF fn = "tool_change" THEN tool_change(c)
    ELSE IF fn = "spindle" THEN spindle(c)
    ELSE IF fn = "relative_positions" THEN relative_positions(c)
    ELSE IF fn = "absolute_positions" THEN absolute_positions(c)
    ELSE IF fn = "coordinate_system" THEN coordinate_system(c)
    ELSE Result(comment_command(c), CurrentState, None)

\* a variant of update that writes the entries the dict has already
update_held(cs, params) ==
    [k \in DOMAIN cs |-> IF k \in DOMAIN params THEN params[k] ELSE cs[k]]

\* CurrentState.update(c.Parameters)
update(cs, params) ==
    [k \in DOMAIN cs \cup DOMAIN params |-> IF k \in DOMAIN params THEN params[k] ELSE cs[k]]

(* ------------------------------- export ------------------------------- *)

\* a variant of InitialState that is assigned only while CurrentState is the empty dict
\* of the module
InitialState_once ==
    IF CurrentState # <<>> THEN CurrentState
    ELSE [k \in {"X", "Y", "Z", "A", "B", "C", "U", "V", "W", "F", "S", "JSXY", "JSZ", "MSXY",
                 "MSZ", "Tool", "ToolController", "Absolute", "Operation"} |->
             IF k \in {"C", "U", "V", "W", "Tool", "ToolController", "Operation"} THEN None
             ELSE IF k = "Absolute" THEN TRUE
             ELSE Num(0)]

\* the dict export() assigns to CurrentState
InitialState ==
    [k \in {"X", "Y", "Z", "A", "B", "C", "U", "V", "W", "F", "S", "JSXY", "JSZ", "MSXY",
            "MSZ", "Tool", "ToolController", "Absolute", "Operation"} |->
        IF k \in {"C", "U", "V", "W", "Tool", "ToolController", "Operation"} THEN None
        ELSE IF k = "Absolute" THEN TRUE
        ELSE Num(0)]

\* the state after the module is loaded; under_unittest: whether the test harness has
\* set UNDER_UNITTEST on it
Loaded(under_unittest) ==
    /\ Arguments = None
    /\ PRECISION = 3
    /\ SKIP_UNKNOWN = <<>>
    /\ GetValue = "getMetricValue"
    /\ FloatPrecision = None
    /\ UNDER_UNITTEST = under_unittest
    /\ CurrentState = <<>>
    /\ pc = "idle"
    /\ last_gcode = <<>>
    /\ ncmds = 0
    /\ nobjs = 0
    /\ obj = None
    /\ ntool = 0
    /\ cmd = None
    /\ outcome = "none"
    /\ dup = FALSE
    /\ axis = <<>>
    /\ machine = Origin
    /\ emitted = <<>>
    /\ error = None
    /\ todo = <<>>
    /\ gcode = <<>>
    /\ final = None
    /\ sink = None
    /\ nruns = 0

\* outside parse_list_of_commands no command is being dispatched
NoStep ==
    /\ cmd' = None
    /\ outcome' = "none"
    /\ dup' = FALSE
    /\ axis' = <<>>
    /\ UNCHANGED machine

Init == \E under_unittest \in BOOLEAN : Loaded(under_unittest)

\* export(): the call of processArguments(argstring)
ProcessArguments(argstring) ==
    /\ pc = "idle"
    /\ LET g == processArguments(argstring)
       IN  /\ Arguments' = g.Arguments
           /\ PRECISION' = g.PRECISION
           /\ SKIP_UNKNOWN' = g.SKIP_UNKNOWN
           /\ GetValue' = g.GetValue
           /\ FloatPrecision' = g.FloatPrecision
    /\ pc' = "args"
    /\ UNCHANGED <<UNDER_UNITTEST, CurrentState, last_gcode, ncmds, nobjs, obj, ntool, step,
                   machine, emitted, error, todo, out, nruns>>

\* a variant of Block that puts the block before the text
Block_before(g, tag) == <<tag>> \o g

\* gcode after a block of the given stage is added to it
Block(g, tag) == IF g # <<>> /\ g[Len(g)] = tag THEN g ELSE Append(g, tag)

\* a variant of EarlyReturn that writes the empty text to the file
EarlyReturn_written ==
    /\ pc' = "returned"
    /\ final' = <<<<>>>>
    /\ sink' = <<<<>>>>
    /\ UNCHANGED <<CurrentState, emitted, gcode, todo, error>>

\* export(): return '' for an object of objectslist without a Path
EarlyReturn ==
    /\ pc' = "returned"
    /\ final' = <<<<>>>>
    /\ UNCHANGED <<CurrentState, emitted, gcode, todo, error, sink>>

\* export(): the check of objectslist, the reset of CurrentState, the header and the
\* head of the preamble, up to its parse_list_of_commands.
\* valid: whether every object of objectslist has a Path.
BeginExport(valid) ==
    /\ pc = "args"
    /\ IF valid
       THEN LET head == IF Arguments.header
                        THEN <<<<"'Exported by FreeCAD">>, <<"'Post Processor: ", "__name__">>,
                               <<"'Output Time:", "now">>>>
                        ELSE <<>>
                g == IF Arguments.header THEN <<<<"header", 0>>>> ELSE <<>>
            IN  /\ CurrentState' = InitialState
                /\ IF Arguments.preamble = None
                   THEN /\ emitted' = head
                        /\ gcode' = g
                        /\ pc' = "objects"
                        /\ UNCHANGED <<todo, error>>
                   ELSE LET parsed == commands_of(Arguments.preamble)
                        IN  /\ emitted' = head \o comment(<<"(begin preamble)">>, FALSE)
                            /\ gcode' = Block(g, <<"preamble", 0>>)
                            /\ IF parsed.raised # None
                               THEN /\ pc' = "failed"
                                    /\ error' = parsed.raised
                                    /\ UNCHANGED todo
                               ELSE /\ pc' = "preamble"
                                    /\ todo' = parsed.commands
                                    /\ UNCHANGED error
                /\ UNCHANGED <<final, sink>>
       ELSE EarlyReturn
    /\ last_gcode' = <<>>
    /\ machine' = Origin
    /\ UNCHANGED <<globals, ncmds, nobjs, obj, ntool, step, nruns>>

\* export(): the head of one round of "for obj in objectslist", up to the loop of
\* parse_list_of_commands over the object's commands
BeginObject(o) ==
    /\ pc = "objects"
    /\ nobjs' = nobjs + 1
    /\ obj' = <<o>>
    /\ LET cs1 == IF o.Proxy = "ToolController"
                  THEN [CurrentState EXCEPT !["ToolController"] = <<o>>] ELSE CurrentState
           cs2 == IF o.Proxy = "ObjectOp"
                  THEN [cs1 EXCEPT !["Operation"] = <<o>>] ELSE cs1
       IN  CurrentState' = cs2
    /\ emitted' = comment(<<"(begin operation: ">> \o o.Label \o <<")">>, FALSE)
                  \o comment(<<"(Path: ">> \o o.Label \o <<")">>, FALSE)
    /\ last_gcode' = <<>>
    /\ gcode' = Block(gcode, <<"item", nobjs + 1>>)
    /\ pc' = "path"
    /\ NoStep
    /\ UNCHANGED <<globals, ncmds, ntool, error, todo, final, sink, nruns>>

\* a variant of is_duplicate that skips nothing
is_duplicate_never(c) == FALSE

\* a variant of is_duplicate without the test of the mode
is_duplicate_any_mode(c) ==
    /\ Arguments.modal
    /\ toGCode(c) = last_gcode

\* a variant of is_duplicate that skips motion commands only
is_duplicate_motion_only(c) ==
    /\ Arguments.modal
    /\ toGCode(c) = last_gcode
    /\ \E i \in DOMAIN ALLOWED_AXIS : Has(c, ALLOWED_AXIS[i])
    /\ CurrentState["Absolute"]

\* the test of parse_list_of_commands that skips a duplicate command
is_duplicate(c) ==
    /\ Arguments.modal
    /\ toGCode(c) = last_gcode
    /\ IF \E i \in DOMAIN ALLOWED_AXIS : Has(c, ALLOWED_AXIS[i])
       THEN CurrentState["Absolute"]
       ELSE TRUE

\* a variant of unknown_message without the label of the operation
unknown_message_no_label(c) == <<"gcode not handled in operation ", ": ">> \o toGCode(c)

\* the message of the NotImplementedError
unknown_message(c) ==
    LET opname == IF CurrentState["Operation"] # None
                  THEN CurrentState["Operation"][1].Label ELSE <<>>
    IN  <<"gcode not handled in operation ">> \o opname \o <<": ">> \o toGCode(c)

\* the position after a rapid or feed move of which the machine takes the given
\* letters: in absolute mode the axis goes to the value, in relative mode by the value
moved(position, c, letters, absolute) ==
    [p \in DOMAIN position |->
        IF p \in letters
        THEN IF absolute THEN c.Parameters[p]
             ELSE Frac(position[p][1] * c.Parameters[p][2] + c.Parameters[p][1] * position[p][2],
                       position[p][2] * c.Parameters[p][2])
        ELSE position[p]]

\* parse_list_of_commands: one round of "for c in commands"
Translate(c) ==
    /\ ncmds' = ncmds + 1
    /\ cmd' = c
    /\ dup' = (toGCode(c) = last_gcode)
    /\ LET command == IF startswith_paren(c.Name) THEN "comment" ELSE c.Name
       IN  IF command \in DOMAIN scommands
           THEN IF is_duplicate(c)
                THEN /\ outcome' = "elided"
                     /\ emitted' = <<>>
                     /\ axis' = <<>>
                     /\ UNCHANGED <<CurrentState, last_gcode, pc, error>>
                ELSE LET r == call(scommands[command], c)
                     IN  /\ last_gcode' = toGCode(c)
                         /\ axis' = IF scommands[command] = "move"
                                       /\ ~\E p \in {"C", "U", "V", "W"} : Has(c, p)
                                    THEN move_axis(c) ELSE <<>>
                         /\ IF r.raised # None
                            THEN /\ outcome' = "raised"
                                 /\ emitted' = <<>>
                                 /\ CurrentState' = r.cs
                                 /\ pc' = "failed"
                                 /\ error' = r.raised
                            ELSE /\ outcome' = "handled"
                                 /\ emitted' = r.txt
                                 /\ CurrentState' = IF DOMAIN c.Parameters # {}
                                                    THEN update(r.cs, c.Parameters) ELSE r.cs
                                 /\ UNCHANGED <<pc, error>>
           ELSE IF command = ""
           THEN /\ outcome' = "empty"
                /\ emitted' = <<>>
                /\ axis' = <<>>
                /\ UNCHANGED <<CurrentState, last_gcode, pc, error>>
           ELSE IF Arguments.abort_on_unknown
                   /\ ~\E i \in DOMAIN SKIP_UNKNOWN : SKIP_UNKNOWN[i] = <<command>>
           THEN /\ outcome' = "raised"
                /\ emitted' = <<>>
                /\ axis' = <<>>
                /\ pc' = "failed"
                /\ error' = unknown_message(c)
                /\ UNCHANGED <<CurrentState, last_gcode>>
           ELSE /\ outcome' = "unknown"
                /\ emitted' = comment(<<"not handled: ">> \o toGCode(c), TRUE)
                /\ axis' = <<>>
                /\ UNCHANGED <<CurrentState, last_gcode, pc, error>>
    /\ ntool' = IF outcome' = "handled" /\ c.Name \in {"M6", "M06"} THEN ntool + 1 ELSE ntool
    /\ machine' = IF c.Name \in DOMAIN scommands /\ scommands[c.Name] = "move"
                  THEN [out |-> moved(machine.out, c, {axis'[i] : i \in DOMAIN axis'},
                                      CurrentState["Absolute"]),
                        inp |-> moved(machine.inp, c, DOMAIN c.Parameters \cap DOMAIN machine.inp,
                                      CurrentState["Absolute"])]
                  ELSE machine
    /\ UNCHANGED <<globals, nobjs, obj, final, sink, nruns>>

\* parse(obj): one round of the loop of parse_list_of_commands over the commands of
\* the object
Dispatch(c) ==
    /\ pc = "path"
    /\ Translate(c)
    /\ gcode' = Block(gcode, <<"item", nobjs>>)
    /\ UNCHANGED todo

\* the lists of commands export makes from its arguments
ListStages == {"preamble", "return-to", "postamble"}

\* export(): one round of the loop of parse_list_of_commands over such a list
DispatchArg ==
    /\ pc \in ListStages
    /\ todo # <<>>
    /\ Translate(Head(todo))
    /\ gcode' = Block(gcode, <<pc, 0>>)
    /\ todo' = Tail(todo)

\* whether the object of the round of export is a compound: it has a Group
InGroup == obj # None /\ "Group" \in DOMAIN obj[1]

\* export() and parse(obj) for an object with a Group: the head of the round of "for obj
\* in objectslist" and the comment of the compound; todo holds the members parse has
\* not ended yet
BeginGroup(o) ==
    /\ pc = "objects"
    /\ nobjs' = nobjs + 1
    /\ obj' = <<o>>
    /\ LET cs1 == IF o.Proxy = "ToolController"
                  THEN [CurrentState EXCEPT !["ToolController"] = <<o>>] ELSE CurrentState
           cs2 == IF o.Proxy = "ObjectOp"
                  THEN [cs1 EXCEPT !["Operation"] = <<o>>] ELSE cs1
       IN  CurrentState' = cs2
    /\ emitted' = comment(<<"(begin operation: ">> \o o.Label \o <<")">>, FALSE)
                  \o comment(<<"(compound: ">> \o o.Label \o <<")">>, FALSE)
    /\ gcode' = Block(gcode, <<"item", nobjs + 1>>)
    /\ todo' = o.Group
    /\ pc' = "group"
    /\ NoStep
    /\ UNCHANGED <<globals, last_gcode, ncmds, ntool, error, final, sink, nruns>>

\* parse(p) for the next member of the Group: nothing for a member without a Path,
\* and for one with a Path its comment, up to the loop of parse_list_of_commands
BeginMember ==
    /\ pc = "group"
    /\ todo # <<>>
    /\ IF "Proxy" \in DOMAIN Head(todo)
       THEN /\ emitted' = comment(<<"(Path: ">> \o Head(todo).Label \o <<")">>, FALSE)
            /\ last_gcode' = <<>>
            /\ pc' = "path"
            /\ UNCHANGED todo
       ELSE /\ emitted' = <<>>
            /\ todo' = Tail(todo)
            /\ UNCHANGED <<last_gcode, pc>>
    /\ NoStep
    /\ UNCHANGED <<globals, CurrentState, ncmds, nobjs, obj, ntool, error, out, nruns>>

\* parse(p): the end of parse_list_of_commands for a member of the Group
EndMember ==
    /\ pc = "path"
    /\ InGroup
    /\ todo' = Tail(todo)
    /\ pc' = "group"
    /\ emitted' = <<>>
    /\ NoStep
    /\ UNCHANGED <<globals, CurrentState, last_gcode, ncmds, nobjs, obj, ntool, error, out,
                   nruns>>

\* export(): the end of parse(obj) for an object with a Group and of its round
EndGroup ==
    /\ pc = "group"
    /\ todo = <<>>
    /\ emitted' = comment(<<"(finish operation: ">> \o obj[1].Label \o <<")">>, FALSE)
    /\ pc' = "objects"
    /\ NoStep
    /\ UNCHANGED <<globals, CurrentState, last_gcode, ncmds, nobjs, obj, ntool, error, todo,
                   out, nruns>>

\* export(): the end of parse_list_of_commands and of the round of the object
EndObject ==
    /\ pc = "path"
    /\ ~InGroup
    /\ emitted' = comment(<<"(finish operation: ">> \o obj[1].Label \o <<")">>, FALSE)
    /\ gcode' = Block(gcode, <<"item", nobjs>>)
    /\ pc' = "objects"
    /\ NoStep
    /\ UNCHANGED <<globals, CurrentState, last_gcode, ncmds, nobjs, obj, ntool, error, todo,
                   final, sink, nruns>>

\* a variant of Closing that opens the file and writes nothing to it
Closing_truncating(txt, g, filename, accepted) ==
    LET native == Arguments.native_postamble # None
        g2 == IF native THEN Block(g, <<"native", 0>>) ELSE g
        text == IF Arguments.show_editor /\ accepted THEN <<<<"editor", 0>>>> ELSE g2
    IN  /\ emitted' = txt \o (IF native THEN Arguments.native_postamble ELSE <<>>)
        /\ gcode' = g2
        /\ final' = <<text>>
        /\ sink' = IF filename # "-" THEN <<<<>>>> ELSE sink
        /\ pc' = "done"
        /\ UNCHANGED <<last_gcode, error, todo>>

\* export(): the native postamble, the editor, the write of the file and the return.
\* txt, g: what the step has added to gcode before; filename: the file to write, "-"
\* for none; accepted: whether the editor, when shown, is left with OK, its text
\* being whatever the user made of it.
Closing(txt, g, filename, accepted) ==
    LET native == Arguments.native_postamble # None
        g2 == IF native THEN Block(g, <<"native", 0>>) ELSE g
        text == IF Arguments.show_editor /\ accepted THEN <<<<"editor", 0>>>> ELSE g2
    IN  /\ emitted' = txt \o (IF native THEN Arguments.native_postamble ELSE <<>>)
        /\ gcode' = g2
        /\ final' = <<text>>
        /\ sink' = IF filename # "-" THEN <<text>> ELSE sink
        /\ pc' = "done"
        /\ UNCHANGED <<last_gcode, error, todo>>

\* export(): the head of the postamble, up to its parse_list_of_commands, or, without
\* a postamble, the rest of export
Postamble(txt, g, filename, accepted) ==
    IF Arguments.postamble = None THEN Closing(txt, g, filename, accepted)
    ELSE LET parsed == commands_of(Arguments.postamble)
         IN  /\ emitted' = txt \o comment(<<"(begin postamble)">>, FALSE)
             /\ gcode' = Block(g, <<"postamble", 0>>)
             /\ last_gcode' = <<>>
             /\ IF parsed.raised # None
                THEN /\ pc' = "failed"
                     /\ error' = parsed.raised
                     /\ UNCHANGED todo
                ELSE /\ pc' = "postamble"
                     /\ todo' = parsed.commands
                     /\ UNCHANGED error
             /\ UNCHANGED <<final, sink>>

\* export(): the head of the return-to move, up to its parse_list_of_commands, or,
\* without one, the rest of export
ReturnTo(filename, accepted) ==
    IF Arguments.return_to = None THEN Postamble(<<>>, gcode, filename, accepted)
    ELSE LET r == return_to_command(Arguments.return_to)
         IN  IF r.skipped THEN Postamble(<<>>, gcode, filename, accepted)
             ELSE IF r.raised # None
             THEN /\ pc' = "failed"
                  /\ error' = r.raised
                  /\ emitted' = <<>>
                  /\ UNCHANGED <<last_gcode, todo, gcode, final, sink>>
             ELSE /\ pc' = "return-to"
                  /\ todo' = <<r.command>>
                  /\ emitted' = comment(<<"(return-to)">>, FALSE)
                  /\ gcode' = Block(gcode, <<"return-to", 0>>)
                  /\ last_gcode' = <<>>
                  /\ UNCHANGED <<error, final, sink>>

\* export(): after the last object
Finish(filename, accepted) ==
    /\ pc = "objects"
    /\ ReturnTo(filename, accepted)
    /\ NoStep
    /\ UNCHANGED <<globals, CurrentState, ncmds, nobjs, obj, ntool, nruns>>

\* export(): after the last command of a list made from an argument
EndList(filename, accepted) ==
    /\ pc \in ListStages
    /\ todo = <<>>
    /\ IF pc = "preamble"
       THEN /\ pc' = "objects"
            /\ emitted' = <<>>
            /\ UNCHANGED <<last_gcode, error, todo, out>>
       ELSE IF pc = "return-to" THEN Postamble(<<>>, gcode, filename, accepted)
       ELSE Closing(<<>>, gcode, filename, accepted)
    /\ NoStep
    /\ UNCHANGED <<globals, CurrentState, ncmds, nobjs, obj, ntool, nruns>>

\* the call of export has ended, by return or by exception, and its locals are gone;
\* the module's globals and the file stay as they are
NextRun ==
    /\ pc \in {"done", "returned", "failed"}
    /\ pc' = "idle"
    /\ nruns' = nruns + 1
    /\ last_gcode' = <<>>
    /\ ncmds' = 0
    /\ nobjs' = 0
    /\ obj' = None
    /\ ntool' = 0
    /\ NoStep
    /\ emitted' = <<>>
    /\ error' = None
    /\ todo' = <<>>
    /\ gcode' = <<>>
    /\ final' = None
    /\ UNCHANGED <<globals, CurrentState, sink>>

(* ------------------------------- inputs ------------------------------- *)

\* the argument strings with at most MaxOpts of the given options
ArgStrings(options) == {a \in SUBSET options : Cardinality(a) <= MaxOpts}

\* a posted object: its Label, the class of its Proxy and, for a tool controller, its
\* Tool and its speeds in mm/s
Postable(label, proxy, toollabel, hf, vf, hr, vr) ==
    [Label |-> label, Proxy |-> proxy, Tool |-> [Label |-> toollabel],
     HorizFeed |-> Num(hf), VertFeed |-> Num(vf), HorizRapid |-> Num(hr), VertRapid |-> Num(vr)]

PlainPath == Postable(<<"testpath">>, "Feature", <<>>, 0, 0, 0, 0)
Operation == Postable(<<"Profile">>, "ObjectOp", <<>>, 0, 0, 0, 0)
Controller == Postable(<<"TC: ">>, "ToolController", <<"6", "m", "m", "&", "E">>, 10, 5, 0, 50)

\* the values the commands below give to the parameter letters
BaseValue(p) ==
    IF p = "X" THEN 10 ELSE IF p = "Y" THEN 20 ELSE IF p = "Z" THEN 30
    ELSE IF p = "A" THEN 40 ELSE IF p = "B" THEN 50 ELSE IF p = "C" THEN 5
    ELSE IF p = "F" THEN 60 ELSE IF p = "S" THEN 1000 ELSE IF p = "I" THEN 1
    ELSE IF p = "J" THEN 2 ELSE 0

\* the command of that name with the given letters at their base values
Cmd(name, letters) == Command(name, [p \in letters |-> Num(BaseValue(p))])

\* the command of that name with one parameter
Cmd1(name, p, v) == Command(name, [q \in {p} |-> Num(v)])

\* one run of export over inputs drawn from the given sets
Run(options, objects, commands, maxcmds) ==
    \/ \E a \in ArgStrings(options) : ProcessArguments(a)
    \/ \E v \in BOOLEAN : BeginExport(v)
    \/ \E o \in objects : nobjs < MaxObjs /\ BeginObject(o)
    \/ \E c \in commands : ncmds < maxcmds /\ Dispatch(c)
    \/ EndObject
    \/ Finish("-", FALSE)

(* ---------- duplicate-command elision: modes, moves, repetition -------- *)

\* the same absolute move, a zero move, a feed move with a speed, a move with an
\* unsupported axis, an arc, the two mode commands, a tool change and a comment
ModalCommands ==
    {Cmd("G0", {"X", "Y", "Z"}), Cmd1("G0", "X", 0), Cmd("G1", {"X", "F"}),
     Cmd("G0", {"X", "C"}), Cmd("G2", {"X", "Y", "I", "J"}), Cmd("G91", {}), Cmd("G90", {}),
     Cmd1("M6", "T", 2), Cmd("(comment)", {})}

ModalOptions == {"--modal", "--axis-modal"}

Next == Run(ModalOptions, {PlainPath}, ModalCommands, MaxCmds)

Spec == Loaded(TRUE) /\ [][Next]_vars

\* a step of the dispatcher
IsDispatchStep == ncmds' = ncmds + 1

\* a command the dispatch table has a handler for
Supported(c) == startswith_paren(c.Name) \/ c.Name \in DOMAIN scommands

IsMove(c) == c.Name \in {"G0", "G00", "G1", "G01"}

IsArc(c) == c.Name \in {"G2", "G02", "G3", "G03"}

HasAxisLetter(c) == \E p \in {"X", "Y", "Z", "A", "B"} : Has(c, p)

HasUnsupportedAxis(c) == \E p \in {"C", "U", "V", "W"} : Has(c, p)

\* the lines of a text that are move lines
MoveLines(text) == {i \in DOMAIN text : text[i] # <<>> /\ text[i][1] \in {"J", "M"}}

\* the lines of a text that are arc lines
ArcLines(text) == {i \in DOMAIN text : text[i] # <<>> /\ text[i][1] = "CG"}

HasNonZeroAxis(c) == \E p \in {"X", "Y", "Z", "A", "B"} : Has(c, p) /\ c.Parameters[p] # Num(0)

\* C2 as amended: with duplicate elision enabled, a command carrying any of X,Y,Z,A,B
\* that repeats the previous command's raw text while mode is Relative is never elided:
\* its handler runs, and a move emits its own move line unless it carries C,U,V or W
\* or axis-value elision leaves it no axis (all its values are zero); an arc emits its
\* own CG line.  In mode Absolute, also after a set-relative, the repetition is elided.
C2_RelativeRepeatHandled ==
    outcome # "none" /\ Arguments.modal /\ dup /\ Supported(cmd) /\ HasAxisLetter(cmd) =>
          IF CurrentState["Absolute"] THEN outcome = "elided"
          ELSE /\ outcome = "handled"
               /\ last_gcode = toGCode(cmd)
               /\ (IsMove(cmd) /\ ~HasUnsupportedAxis(cmd)
                   /\ (Arguments.axis_modal => HasNonZeroAxis(cmd))) =>
                     Cardinality(MoveLines(emitted)) = 1
               /\ IsArc(cmd) => Cardinality(ArcLines(emitted)) = 1

\* C2 reached: a relative move that repeats the previous command emits its line
C2_Witness ==
    /\ outcome = "handled" /\ dup
    /\ Arguments.modal
    /\ ~CurrentState["Absolute"]
    /\ IsMove(cmd) /\ HasAxisLetter(cmd)
    /\ Cardinality(MoveLines(emitted)) = 1

\* C2 as claimed: every repetition of a motion command in Relative mode is handled
\* and emits its own line
C2_AsClaimed ==
    outcome # "none" /\ Arguments.modal /\ dup /\ Supported(cmd) /\ HasAxisLetter(cmd)
    /\ ~CurrentState["Absolute"] =>
          /\ outcome = "handled"
          /\ Cardinality(MoveLines(emitted) \cup ArcLines(emitted)) = 1

(* --------------------- tool changes and their pauses -------------------- *)

\* tool changes to different tools and to the same tool, under both names, a tool
\* change without a tool number, and a move between them
ToolCommands ==
    {Cmd1("M6", "T", 1), Cmd1("M6", "T", 2), Cmd1("M06", "T", 1), Cmd("M6", {}),
     Cmd("G0", {"X"})}

ToolOptions == {"--toolchanger", "--comments", "--gcode-comments", "--modal"}

NextTool == Run(ToolOptions, {Controller, PlainPath}, ToolCommands, MaxCmds)

SpecTool == Init /\ [][NextTool]_vars

IsToolChange(c) == c.Name \in {"M6", "M06"}

\* the lines of a text that are the bare PAUSE
PauseLines(text) == {i \in DOMAIN text : text[i] = <<"PAUSE">>}

\* the lines of a text that begin with the given token
LinesWith(text, token) == {i \in DOMAIN text : text[i] # <<>> /\ text[i][1] = token}

\* C3: with the tool changer disabled, the first tool change handled in a run emits no
\* PAUSE line, and every later one emits exactly one PAUSE line, after its &Tool line
\* and before its &ToolName line.
C3_ToolChangePause ==
    outcome = "handled" /\ IsToolChange(cmd) /\ ~Arguments.toolchanger =>
        /\ Cardinality(LinesWith(emitted, "&Tool=")) = 1
        /\ Cardinality(LinesWith(emitted, "&ToolName=\"")) = 1
        /\ IF ntool = 1
           THEN PauseLines(emitted) = {}
           ELSE /\ Cardinality(PauseLines(emitted)) = 1
                /\ \A i \in PauseLines(emitted) :
                      /\ \A t \in LinesWith(emitted, "&Tool=") : t < i
                      /\ \A n \in LinesWith(emitted, "&ToolName=\"") : i < n

\* C3 reached: a second tool change without tool changer has emitted its PAUSE
C3_Witness ==
    /\ outcome = "handled" /\ IsToolChange(cmd)
    /\ ~Arguments.toolchanger
    /\ ntool = 2
    /\ PauseLines(emitted) # {}

(* ----------------------------- unknown commands ------------------------ *)

\* two coordinate systems and a program stop the table does not hold, a known move,
\* an empty name and a comment
UnknownCommands ==
    {Cmd("G55", {}), Cmd1("G57", "X", 1), Cmd("M0", {}), Cmd("G0", {"X"}), Cmd("", {}),
     Cmd("(comment)", {})}

UnknownOptions == {"--no-abort-on-unknown", "--skip-unknown=G55,G56", "--comments", "--modal"}

NextUnknown == Run(UnknownOptions, {Operation, PlainPath}, UnknownCommands, MaxCmds)

SpecUnknown == Init /\ [][NextUnknown]_vars

\* a command that is neither in the dispatch table nor a comment nor empty
IsUnknown(c) == ~Supported(c) /\ c.Name # ""

\* whether the name is one of the option --skip-unknown as last given
Exempt(name) == \E i \in DOMAIN SKIP_UNKNOWN : SKIP_UNKNOWN[i] = <<name>>

\* whether the tokens part occur in that order, next to each other, in whole
Within(part, whole) ==
    \E k \in 0..(Len(whole) - Len(part)) : \A i \in DOMAIN part : whole[k + i] = part[i]

\* C4: with abort-on-unknown enabled, a command whose name is not in the dispatch
\* table, not a comment, not empty and not exempt fails the run at that command, with
\* an error that names the command's text and the label of the active operation; no
\* command is translated after it.
C4_UnknownAborts ==
    [][/\ IsDispatchStep /\ IsUnknown(cmd') /\ Arguments.abort_on_unknown
          /\ ~Exempt(cmd'.Name) =>
             /\ pc' = "failed"
             /\ emitted' = <<>>
             /\ CurrentState' = CurrentState
             /\ Within(toGCode(cmd'), error')
             /\ CurrentState["Operation"] # None =>
                   Within(CurrentState["Operation"][1].Label, error')
       /\ pc = "failed" => pc' = "failed" /\ ncmds' = ncmds /\ emitted' = emitted]_vars

\* C4 reached: an unknown command has failed a run inside an operation
C4_Witness ==
    /\ pc = "failed"
    /\ IsUnknown(cmd)
    /\ CurrentState["Operation"] # None
    /\ error # None

(* ------------------------------- arcs ---------------------------------- *)

\* the arcs under their four names, an arc without its centre, and a move
ArcCommands ==
    {Cmd(n, {"X", "Y", "I", "J"}) : n \in {"G2", "G02", "G3", "G03"}}
    \cup {Cmd("G2", {"X", "Y"}), Cmd("G0", {"X"}), Cmd("G91", {})}

ArcOptions == {"--gcode-comments", "--inches", "--modal"}

NextArc == Run(ArcOptions, {PlainPath}, ArcCommands, MaxCmds)

SpecArc == Init /\ [][NextArc]_vars

\* the direction token of the arc line of a text
Direction(text) ==
    LET line == text[CHOOSE i \in ArcLines(text) : TRUE]
        k == CHOOSE j \in DOMAIN line : line[j] = "T"
    IN  line[k + 2]

\* C5 as claimed: the direction token of an arc is 1 for a clockwise arc (G2 and G02)
\* and -1 for a counterclockwise arc (G3 and G03)
C5_AsClaimed ==
    outcome = "handled" /\ IsArc(cmd) =>
        Direction(emitted) = IF cmd.Name \in {"G2", "G02"} THEN "1" ELSE "-1"

(* ------------------------------- moves --------------------------------- *)

\* rapid and feed moves, under both names, over one axis, two axes, three axes with
\* a speed and the rotary axes, a zero move, a negative move and the relative mode
MoveCommands ==
    {Cmd("G0", {"X"}), Cmd("G00", {"Z"}), Cmd("G0", {"X", "Z"}), Cmd("G1", {"Y", "Z", "F"}),
     Cmd("G0", {"X", "Y"}), Cmd1("G01", "A", -7), Cmd("G1", {"X", "A"}), Cmd1("G0", "X", 0),
     Cmd("G91", {})}

MoveOptions ==
    {"--axis-modal", "--inches", "--ab-is-distance", "--precision=2", "--gcode-comments"}

NextMove == Run(MoveOptions, {PlainPath}, MoveCommands, MaxMoves)

SpecMove == Loaded(TRUE) /\ [][NextMove]_vars

\* a move the move handler has translated
MoveHandled == outcome = "handled" /\ IsMove(cmd) /\ ~HasUnsupportedAxis(cmd)

\* a line without the echo of its command
StripEcho(line) ==
    IF \E k \in DOMAIN line : line[k] = " '"
    THEN SubSeq(line, 1, (CHOOSE k \in DOMAIN line : line[k] = " '") - 1)
    ELSE line

\* the move line of a text that has one
MoveLine(text) == StripEcho(text[CHOOSE i \in MoveLines(text) : TRUE])

\* the prefix a move line is to have
Prefix(c) == IF c.Name \in {"G0", "G00"} THEN "J" ELSE "M"

\* the slots of a move line over the given keys: a comma each, and the value of the
\* key when it is included
RECURSIVE Slots(_, _, _)
Slots(c, ax, keys) ==
    IF keys = <<>> THEN <<>>
    ELSE <<",">> \o (IF InAxis(keys[1], ax) THEN move_value(c, keys[1]) ELSE <<>>)
         \o Slots(c, ax, Tail(keys))

\* C6 as claimed: a move whose included axes are XZ, YZ or XYZ gives the prefix, 3 and
\* three slots in the order X,Y,Z, the slot of an axis that is not included left blank
\* with its comma written
C6_AsClaimed ==
    MoveHandled /\ axis \in {<<"X", "Z">>, <<"Y", "Z">>, <<"X", "Y", "Z">>} =>
        /\ Cardinality(MoveLines(emitted)) = 1
        /\ MoveLine(emitted) = <<Prefix(cmd), "3">> \o Slots(cmd, axis, <<"X", "Y", "Z">>)

\* C7 as claimed: a move whose included axes hold A or B and more than one letter gives
\* the prefix, 5 and five slots in the order X,Y,Z,A,B, the slot of an axis that is not
\* included left blank with its comma written
C7_AsClaimed ==
    MoveHandled /\ Len(axis) > 1 /\ (InAxis("A", axis) \/ InAxis("B", axis)) =>
        /\ Cardinality(MoveLines(emitted)) = 1
        /\ MoveLine(emitted)
             = <<Prefix(cmd), "5">> \o Slots(cmd, axis, <<"X", "Y", "Z", "A", "B">>)

\* C8: with axis-value elision enabled and mode Absolute, a rapid or feed move in which
\* every axis letter present has the value CurrentState holds for it emits no move line.
C8_UnchangedAxesNoMove ==
    [][/\ IsDispatchStep /\ IsMove(cmd') /\ outcome' = "handled"
       /\ Arguments.axis_modal /\ CurrentState["Absolute"]
       /\ \A p \in {"X", "Y", "Z", "A", "B"} :
             Has(cmd', p) => cmd'.Parameters[p] = CurrentState[p]
       => MoveLines(emitted') = {}]_vars

\* C8 reached: a move over axes that all hold their values has been handled
C8_Witness ==
    /\ MoveHandled /\ HasAxisLetter(cmd)
    /\ Arguments.axis_modal /\ CurrentState["Absolute"]
    /\ axis = <<>>
    /\ MoveLines(emitted) = {}

\* the values of the included axes, a comma before each
RECURSIVE Values(_, _)
Values(c, ax) ==
    IF ax = <<>> THEN <<>> ELSE <<",">> \o move_value(c, ax[1]) \o Values(c, Tail(ax))

\* C9: a letter of X,Y,Z,A,B is included in a move exactly when the command has it and
\* either axis-value elision is disabled, or mode is Absolute and its value differs
\* from the position held for it, or mode is Relative and its value is not zero; the
\* move line holds the values of the included letters, in order, and no others, and
\* there is no move line when no letter is included.
C9_IncludedAxes ==
    [][IsDispatchStep /\ IsMove(cmd') /\ ~HasUnsupportedAxis(cmd') /\ outcome' = "handled" =>
          /\ \A p \in {"X", "Y", "Z", "A", "B"} :
                InAxis(p, axis') <=>
                   /\ Has(cmd', p)
                   /\ \/ ~Arguments.axis_modal
                      \/ CurrentState["Absolute"] /\ cmd'.Parameters[p] # CurrentState[p]
                      \/ ~CurrentState["Absolute"] /\ cmd'.Parameters[p] # Num(0)
          /\ Cardinality(MoveLines(emitted')) = IF axis' = <<>> THEN 0 ELSE 1
          /\ axis' # <<>> =>
                /\ SubSeq(MoveLine(emitted'), 3, Len(MoveLine(emitted'))) = Values(cmd', axis')
                /\ MoveLine(emitted')[2] \in {"2", "3", "5"} \/ MoveLine(emitted')[2] = axis'[1]]_vars

\* C9 reached: a move with axis-value elision has one of its two letters included
C9_Witness ==
    /\ MoveHandled
    /\ Arguments.axis_modal
    /\ Len(axis) = 1
    /\ Cardinality({p \in {"X", "Y", "Z", "A", "B"} : Has(cmd, p)}) = 2
    /\ MoveLines(emitted) # {}

IsDigit(t) == \E d \in 0..9 : Digit(d) = t

\* whether the tokens are the number v in fixed point with exactly p decimal digits,
\* rounded to the nearest
Rendered(v, p, tokens) ==
    LET neg == tokens # <<>> /\ tokens[1] = "-"
        body == IF neg THEN Tail(tokens) ELSE tokens
        whole == Len(body) - (IF p > 0 THEN p + 1 ELSE 0)
        digits == SelectSeq(body, IsDigit)
    IN  /\ whole >= 1
        /\ \A i \in DOMAIN body : IF p > 0 /\ i = whole + 1 THEN body[i] = "." ELSE IsDigit(body[i])
        /\ neg <=> v[1] < 0
        /\ 2 * Abs(int_of_str(digits) * v[2] - Abs(v[1]) * Pow10(p)) <= v[2]

\* the value a move is to write for the letter p
Written(c, p) ==
    IF p \in {"A", "B"} /\ ~Arguments.ab_is_distance THEN c.Parameters[p]
    ELSE IF Arguments.inches /\ ~Arguments.metric
         THEN Frac(c.Parameters[p][1] * 10, c.Parameters[p][2] * 254)
    ELSE c.Parameters[p]

\* the number of decimal digits the run is configured with
Configured ==
    IF Arguments.precision # None THEN int_of_str(Arguments.precision)
    ELSE IF Arguments.inches /\ ~Arguments.metric THEN 4 ELSE 3

\* C10: a move with exactly one included letter gives one move line: the prefix (J for a
\* rapid move, M for a feed move), the letter, a comma and the value with exactly the
\* configured number of decimal digits.
C10_SingleAxisLine ==
    MoveHandled /\ Len(axis) = 1 =>
        /\ Cardinality(MoveLines(emitted)) = 1
        /\ LET line == MoveLine(emitted)
           IN  /\ Len(line) > 3
               /\ line[1] = Prefix(cmd)
               /\ line[2] = axis[1]
               /\ line[3] = ","
               /\ Rendered(Written(cmd, axis[1]), Configured, SubSeq(line, 4, Len(line)))

\* C10 reached: a rapid move under its long name has written its one axis with the
\* number of digits the option gives
C10_Witness ==
    /\ MoveHandled /\ Len(axis) = 1
    /\ cmd.Name = "G00"
    /\ Arguments.precision # None
    /\ MoveLines(emitted) # {}

\* C11: a move whose included axes are exactly X and Y gives one move line: the
\* prefix, 2, the X value and the Y value, in that order.  (Parameters is a map from
\* letters to values, so the order in which the input wrote them is not there.)
C11_XYLine ==
    MoveHandled /\ axis = <<"X", "Y">> =>
        /\ Cardinality(MoveLines(emitted)) = 1
        /\ LET line == MoveLine(emitted)
               values == split(SubSeq(line, 4, Len(line)), ",")
           IN  /\ SubSeq(line, 1, 3) = <<Prefix(cmd), "2", ",">>
               /\ Len(values) = 2
               /\ Rendered(Written(cmd, "X"), Configured, values[1])
               /\ Rendered(Written(cmd, "Y"), Configured, values[2])

\* C11 reached: a move over X and Y with different values has written its line
C11_Witness ==
    /\ MoveHandled /\ axis = <<"X", "Y">>
    /\ cmd.Parameters["X"] # cmd.Parameters["Y"]
    /\ MoveLines(emitted) # {}

(* ------------------------- the stages of a run ------------------------- *)

\* a move and the relative mode
StageCommands == {Cmd("G0", {"X"}), Cmd("G91", {})}

\* a preamble, a return-to move, a postamble and a native postamble, without the
\* header and with comments
StageOptions ==
    {"--preamble=G91\\nG0 X10", "--return-to=,5", "--postamble=G90\\nG0 X0",
     "--native-postamble=FB", "--no-header", "--comments"}

\* a preamble that is no gcode, a return-to that is no number and one with six
\* coordinates
BadStageOptions == {"--preamble=G0 X?", "--return-to=x", "--return-to=1,,,,,6"}

\* the files export is told to write: none, or one
Filenames == {"-", "out.sbp"}

NextStages ==
    \/ Run(StageOptions, {PlainPath}, StageCommands, MaxCmds)
    \/ \E a \in {StageOptions \ {"--no-header"}} \cup {{b, "--postamble=G90\\nG0 X0"} :
                                                      b \in BadStageOptions} :
          ProcessArguments(a)
    \/ DispatchArg
    \/ \E f \in Filenames, ok \in BOOLEAN : Finish(f, ok)
    \/ \E f \in Filenames, ok \in BOOLEAN : EndList(f, ok)

SpecStages == Loaded(TRUE) /\ [][NextStages]_vars

\* the place of a stage in the order of the output
Rank(tag) ==
    IF tag[1] = "header" THEN 0
    ELSE IF tag[1] = "preamble" THEN 1
    ELSE IF tag[1] = "item" THEN 1 + tag[2]
    ELSE IF tag[1] = "return-to" THEN 2 + MaxObjs + 1
    ELSE IF tag[1] = "postamble" THEN 3 + MaxObjs + 1
    ELSE 4 + MaxObjs + 1

\* C12: the blocks of the text export builds are, in the order of the text: the
\* header, the preamble, the items in input order, the return-to move, the postamble,
\* the native postamble, each at most once; every block the run has begun is in it,
\* and a run that ends well returns this text, or what the editor was left with.
C12_StageOrder ==
    /\ \A i, j \in DOMAIN gcode : i < j => Rank(gcode[i]) < Rank(gcode[j])
    /\ pc = "objects" /\ Arguments.header => gcode[1] = <<"header", 0>>
    /\ pc \in {"path", "preamble", "return-to", "postamble"} =>
          gcode # <<>> /\ gcode[Len(gcode)] = <<IF pc = "path" THEN "item" ELSE pc,
                                                IF pc = "path" THEN nobjs ELSE 0>>
    /\ pc = "done" =>
          /\ Arguments.native_postamble # None => gcode[Len(gcode)] = <<"native", 0>>
          /\ \/ final = <<gcode>>
             \/ Arguments.show_editor /\ final = <<<<<<"editor", 0>>>>>>

\* C12 reached: a run with all the stages has returned its text
C12_Witness ==
    /\ pc = "done"
    /\ final = <<gcode>>
    /\ {gcode[i][1] : i \in DOMAIN gcode}
          = {"header", "preamble", "item", "return-to", "postamble", "native"}

\* C13: when an object of objectslist exposes no Path, export returns the empty text
\* without an exception: no text is produced, no object and no command is taken,
\* CurrentState stays as it was, the file is not written, and nothing more happens in
\* that run.
C13_NotAPath ==
    [][/\ pc = "args" /\ pc' \notin {"objects", "preamble", "failed"} =>
             /\ pc' = "returned"
             /\ final' = <<<<>>>>
             /\ error' = None
             /\ emitted' = <<>> /\ gcode' = <<>>
             /\ nobjs' = 0 /\ ncmds' = 0
             /\ CurrentState' = CurrentState
             /\ sink' = sink
       /\ pc = "returned" => pc' \in {"returned", "idle"}]_vars

\* C13 reached: a run that would have had a header and a preamble has returned
\* the empty text
C13_Witness ==
    /\ pc = "returned"
    /\ Arguments.header /\ Arguments.preamble # None
    /\ final = <<<<>>>>
    /\ sink = None

(* ------------------- several runs in one process ---------------------- *)

MaxRuns == 2
MaxRunCmds == 2

\* a feed move, the relative mode, a tool change and a command that is not known
RunCommands == {Cmd("G1", {"X", "F"}), Cmd("G91", {}), Cmd1("M6", "T", 2), Cmd("G55", {})}

RunOptions == {"--inches", "--metric", "--precision=2"}

\* calls of export one after the other in one process, each with its own arguments
NextRuns ==
    \/ \E a \in ArgStrings(RunOptions) : nruns < MaxRuns /\ ProcessArguments(a)
    \/ \E v \in BOOLEAN : BeginExport(v)
    \/ \E o \in {Operation} : nobjs < MaxObjs /\ BeginObject(o)
    \/ \E c \in RunCommands : ncmds < MaxRunCmds /\ Dispatch(c)
    \/ EndObject
    \/ \E f \in Filenames : Finish(f, FALSE)
    \/ NextRun

SpecRuns == Loaded(TRUE) /\ [][NextRuns]_vars

\* C14: the step of export that passes the check of objectslist leaves CurrentState
\* with the positions and the feed registers at 0, Absolute true and the tool, the
\* tool controller and the operation unset, whatever it was before.
C14_FreshState ==
    [][pc = "args" /\ pc' # "returned" =>
          /\ \A k \in {"X", "Y", "Z", "A", "B", "JSXY", "JSZ", "MSXY", "MSZ"} :
                 CurrentState'[k] = Num(0)
          /\ CurrentState'["Absolute"] = TRUE
          /\ \A k \in {"Tool", "ToolController", "Operation"} : CurrentState'[k] = None]_vars

\* C14 reached: a run is about to pass the check while CurrentState is what an
\* earlier run left: moved, relative and inside an operation
C14_Witness ==
    /\ nruns > 0
    /\ pc = "args"
    /\ CurrentState # <<>>
    /\ CurrentState["X"] # Num(0)
    /\ CurrentState["Absolute"] = FALSE
    /\ CurrentState["Operation"] # None

\* C15: in every run, after whatever runs came before, the number of decimal digits
\* is the precision given in this run's arguments if there is one, otherwise 4 when the
\* run converts to inches and 3 when it does not; with --inches and --metric together
\* it is 3.
C15_Decimals ==
    pc # "idle" =>
        /\ FloatPrecision = PRECISION
        /\ PRECISION = IF Arguments.precision # None THEN int_of_str(Arguments.precision)
                       ELSE IF GetValue = "getImperialValue" THEN 4 ELSE 3
        /\ Arguments.inches /\ Arguments.metric /\ Arguments.precision = None =>
               GetValue = "getMetricValue" /\ PRECISION = 3

(* --------------------- unit conversion of moves ----------------------- *)

\* the values written in a move line, in the order of the line
Fields(line) == SelectSeq(split(SubSeq(line, 3, Len(line)), ","), LAMBDA f : f # <<>>)

\* C16: each value of a move line is the value of its letter in the command, divided by
\* 25.4 when the run is in inches and the letter is X, Y or Z, or is A or B with
\* A and B taken as distances, and as it is otherwise; in the line of one axis as in
\* the lines of two, three and five slots.
C16_Converted ==
    MoveHandled /\ axis # <<>> =>
        /\ MoveLines(emitted) # {}
        /\ LET fields == Fields(MoveLine(emitted))
           IN  /\ Len(fields) = Len(axis)
               /\ \A i \in DOMAIN axis :
                    LET v == cmd.Parameters[axis[i]]
                        linear == axis[i] \in {"X", "Y", "Z"} \/ Arguments.ab_is_distance
                        inches == Arguments.inches /\ ~Arguments.metric
                    IN  Rendered(IF inches /\ linear THEN Frac(v[1] * 10, v[2] * 254) ELSE v,
                                 Configured, fields[i])

\* C16 reached: a run in inches has written a line of five slots with a distance and
\* an angle
C16_Witness ==
    /\ MoveHandled
    /\ Arguments.inches /\ ~Arguments.metric /\ ~Arguments.ab_is_distance
    /\ axis = <<"X", "A">>
    /\ Len(Fields(MoveLine(emitted))) = 2

(* ------------------------- coordinate systems -------------------------- *)

\* the names of the coordinate systems other than the first
OtherOffsets == {"G55", "G56", "G57", "G58", "G59", "G59.1", "G59.2", "G59.3", "G54.1"}

\* C17: a command that selects a coordinate system other than the first does not fail
\* the run, whatever the option abort-on-unknown, and adds no line to the output; the
\* commands after it are translated.
C17_OtherOffsetSkipped ==
    outcome # "none" /\ cmd.Name \in OtherOffsets =>
        /\ pc # "failed"
        /\ error = None
        /\ emitted = <<>>

(* ---------------------- unknown commands let through ------------------- *)

\* C18: with abort-on-unknown disabled, or with the name of the command in the list of
\* --skip-unknown, an unknown command gives exactly one comment line that holds its
\* text, also when comments are disabled; the run goes on, and the positions, the
\* registers, the mode, the tool and the last handled command stay as they were.
C18_UnknownSkipped ==
    [][/\ IsDispatchStep /\ IsUnknown(cmd')
       /\ ~Arguments.abort_on_unknown \/ Exempt(cmd'.Name)
       => /\ Len(emitted') = 1
          /\ emitted'[1][1] = "'"
          /\ Within(toGCode(cmd'), emitted'[1])
          /\ pc' = "path"
          /\ error' = None
          /\ CurrentState' = CurrentState
          /\ last_gcode' = last_gcode]_vars

\* C18 reached: a command exempt by its name, while abort-on-unknown
\* is enabled and comments are disabled, has left its comment line
C18_Witness ==
    /\ outcome = "unknown"
    /\ Arguments.abort_on_unknown /\ ~Arguments.comments
    /\ Exempt(cmd.Name)
    /\ Len(emitted) = 1
    /\ pc = "path"

(* ------------------------------ spindle -------------------------------- *)

\* the spindle speed under its two names, a speed with a fraction, a spindle command
\* without a speed, and a move
SpindleCommands ==
    {Cmd("M3", {"S"}), Command("M03", [p \in {"S"} |-> Frac(2001, 2)]), Cmd("M3", {}),
     Cmd("G0", {"X"})}

SpindleOptions ==
    {"--spindle-controller", "--wait-for-spindle=0", "--wait-for-spindle=-1", "--comments",
     "--modal"}

NextSpindle == Run(SpindleOptions, {PlainPath}, SpindleCommands, MaxCmds)

SpecSpindle == Loaded(TRUE) /\ [][NextSpindle]_vars

IsSpindle(c) == c.Name \in {"M3", "M03"}

\* the lines of a text that begin with PAUSE, with or without a duration
AnyPause(text) == {i \in DOMAIN text : text[i] # <<>> /\ text[i][1] \in {"PAUSE", "PAUSE "}}

\* C19: a handled spindle command gives first a TR line with its speed; then, with the
\* spindle controller, the line of the macro C6 and after it one PAUSE with the wait
\* when the wait is above zero, and no PAUSE when it is not; without the spindle
\* controller, the line that asks for the speed and one bare PAUSE, with comments
\* enabled or not.
C19_SpindleLines ==
    outcome = "handled" /\ IsSpindle(cmd) =>
        LET speed == str(int(cmd.Parameters["S"]))
            wait == Arguments.wait_for_spindle
        IN  /\ Len(emitted) >= 2
            /\ emitted[1] = <<"TR", ",">> \o speed
            /\ IF Arguments.spindle_controller
               THEN /\ emitted[2] = <<"C6 'spindle-controller">>
                    /\ PauseLines(emitted) = {}
                    /\ IF wait > 0
                       THEN Len(emitted) = 3 /\ emitted[3] = <<"PAUSE ">> \o str(wait)
                       ELSE Len(emitted) = 2
               ELSE /\ Len(emitted) = 3
                    /\ emitted[2] = <<"'Change spindle speed to ">> \o speed
                    /\ emitted[3] = <<"PAUSE">>

\* C19 reached: a spindle command with the spindle controller and a negative wait has
\* given its two lines
C19_Witness ==
    /\ outcome = "handled" /\ IsSpindle(cmd)
    /\ Arguments.spindle_controller /\ Arguments.wait_for_spindle < 0
    /\ Len(emitted) = 2
    /\ AnyPause(emitted) = {}

(* ------------------------------- the mode ------------------------------ *)

\* C20: a handled G91 leaves the mode relative and gives the SR line, a handled G90
\* leaves it absolute and gives the SA line, and a G91 or G90 that is elided as a
\* duplicate finds the mode already as it asks; no other command and no other step of
\* a run changes the mode. So the mode is at every point that of the last G91 or G90 of
\* the input, and absolute when there was none.
C20_ModeFollowsInput ==
    [][IF IsDispatchStep /\ cmd'.Name \in {"G91", "G90"}
       THEN /\ outcome' \in {"handled", "elided"}
            /\ CurrentState'["Absolute"] = (cmd'.Name = "G90")
            /\ outcome' = "handled" =>
                  \E i \in DOMAIN emitted' :
                      emitted'[i] = IF cmd'.Name = "G90" THEN <<"SA 'ABSOLUTE">>
                                    ELSE <<"SR 'RELATIVE">>
       ELSE IF pc = "args" THEN pc' # "returned" => CurrentState'["Absolute"] = TRUE
       ELSE pc # "idle" => CurrentState'["Absolute"] = CurrentState["Absolute"]]_vars

\* C20 reached: a G91 has been elided as a duplicate, in relative mode
C20_Witness ==
    /\ outcome = "elided"
    /\ cmd.Name = "G91"
    /\ ~CurrentState["Absolute"]
    /\ Arguments.modal

(* ------------------------- units of the controller --------------------- *)

\* whether line i of the text is &WASUNITS=%(25) and the next one the VD line of the
\* run's units
UnitsSetAt(text, i) ==
    /\ i + 1 \in DOMAIN text
    /\ text[i] = <<"&WASUNITS=%(25)">>
    /\ text[i + 1] = IF GetValue = "getImperialValue" THEN <<"VD,,,0">> ELSE <<"VD,,,1">>

\* C21: an export that passes the check of objectslist writes, before any command is
\* translated, the line &WASUNITS=%(25) and after it VD,,,1 in metric and VD,,,0 in
\* inches; and its last step before the native postamble writes VD,,,&WASUNITS, also
\* for objects without commands.
C21_UnitsSetAndRestored ==
    [][/\ pc = "args" /\ pc' # "returned" =>
             \E i \in DOMAIN emitted' : UnitsSetAt(emitted', i)
       /\ pc' = "done" =>
             \E i \in DOMAIN emitted' : emitted'[i] = <<"VD,,,&WASUNITS">>]_vars

(* ----------------------------- program stop ---------------------------- *)

\* C22: with the default options the command M0 does not fail the run and gives a PAUSE
\* line, with a prompt line before it.
C22_ProgramStop ==
    outcome # "none" /\ cmd.Name = "M0" /\ Arguments = ParserDefaults =>
        /\ pc # "failed"
        /\ error = None
        /\ PauseLines(emitted) # {}
        /\ \A i \in PauseLines(emitted) :
               i > 1 /\ emitted[i - 1] # <<>> /\ emitted[i - 1][1] = "'"

(* --------------------------- the return-to move ------------------------ *)

\* texts of --return-to: Y alone, no coordinate at all, X, Z and B, a text that is no
\* number, a number and then a text that is none, a sixth coordinate, and a sixth
\* coordinate that is no number
ReturnTexts ==
    {"--return-to=,5", "--return-to=,", "--return-to=1,,3,,4", "--return-to=x",
     "--return-to=,5,y", "--return-to=1,,,,,6", "--return-to=1,,,,,x"}

ReturnOptions == {"--comments", "--axis-modal", "--postamble=G90\\nG0 X0", "--native-postamble=FB"}

\* a move to where --return-to=,5 leads, and the relative mode
ReturnCommands == {Cmd1("G0", "Y", 5), Cmd("G91", {})}

NextReturn ==
    \/ \E r \in ReturnTexts, a \in ArgStrings(ReturnOptions) : ProcessArguments({r} \cup a)
    \/ BeginExport(TRUE)
    \/ nobjs < MaxObjs /\ BeginObject(PlainPath)
    \/ \E c \in ReturnCommands : ncmds < MaxCmds /\ Dispatch(c)
    \/ EndObject
    \/ DispatchArg
    \/ \E f \in Filenames : Finish(f, FALSE)
    \/ \E f \in Filenames : EndList(f, FALSE)

SpecReturn == Loaded(TRUE) /\ [][NextReturn]_vars

\* the coordinates of the text of --return-to
Coordinates == split(Arguments.return_to, ",")

\* the places of the coordinates that are not empty
Given == {i \in DOMAIN Coordinates : Coordinates[i] # <<>>}

\* C23: the return-to step makes one rapid move whose letters are exactly those of
\* X,Y,Z,A,B, in that order, whose coordinate in the text is not empty, each with the
\* value of its coordinate; the dispatcher handles it as a move of these letters, and
\* a text whose coordinates are all empty gives no move line.
C23_ReturnMove ==
    pc = "return-to" =>
        LET c == IF todo # <<>> THEN todo[1] ELSE cmd
        IN  /\ Len(todo) <= 1
            /\ c.Name = "G0"
            /\ DOMAIN c.Parameters = {ALLOWED_AXIS[i] : i \in Given}
            /\ \A i \in Given : c.Parameters[ALLOWED_AXIS[i]] = float(Coordinates[i])
            /\ todo = <<>> =>
                  /\ outcome = "handled"
                  /\ \A i \in DOMAIN axis : \E k \in Given : ALLOWED_AXIS[k] = axis[i]
                  /\ ~Arguments.axis_modal => Len(axis) = Cardinality(Given)
                  /\ Cardinality(MoveLines(emitted)) = IF axis = <<>> THEN 0 ELSE 1

\* C23 reached: the text 1,,3,,4 has given a move line of X, Z and B
C23_Witness ==
    /\ pc = "return-to" /\ todo = <<>>
    /\ Given = {1, 3, 5}
    /\ axis = <<"X", "Z", "B">>
    /\ MoveLines(emitted) # {}

\* C24: when a coordinate of the text of --return-to is no number, the return-to step
\* adds nothing to the output, neither its comment nor a move, and leaves CurrentState
\* as it is; the run goes on with the postamble and the native postamble and ends
\* with the text it has.
C24_ReturnAbandoned ==
    [][/\ pc = "objects" /\ pc' \notin {"objects", "path"}
       /\ Arguments.return_to # None
       /\ \E i \in Given : ~IsFloat(Coordinates[i])
       => /\ error' = None
          /\ pc' = IF Arguments.postamble # None THEN "postamble" ELSE "done"
          /\ CurrentState' = CurrentState
          /\ \A i \in DOMAIN gcode' : gcode'[i][1] # "return-to"
          /\ \A i \in DOMAIN emitted' : emitted'[i] # <<"'", "(return-to)">>
          /\ MoveLines(emitted') = {}]_vars

(* ---------------------------- the line of an arc ----------------------- *)

FeedCommands ==
    {Cmd("G1", {"Y", "Z", "F"}), Cmd("G01", {"Z", "F"}), Cmd("G1", {"X", "C", "F"}),
     Command("G1", [p \in {"X", "F"} |-> IF p = "F" THEN Num(30) ELSE Num(10)]),
     Cmd("G1", {"A", "F"}), Cmd("G0", {"X", "F"}), Cmd("G00", {"X", "Z", "F"}),
     Cmd("G91", {})}

FeedOptions == {"--axis-modal", "--inches", "--gcode-comments"}

NextFeed == Run(FeedOptions, {PlainPath}, FeedCommands, MaxMoves)

SpecFeed == Loaded(TRUE) /\ [][NextFeed]_vars

\* the lines of a text that set a speed
SpeedLines(text) == {i \in DOMAIN text : text[i] # <<>> /\ text[i][1] \in {"MS", "JS"}}

\* C26: a move with F takes the registers of the rapid moves for G0 and G00 and those of
\* the feed moves for G1 and G01. When Z is included and the Z register of that class
\* is not the converted F, the register becomes it and the line gets a Z value; the
\* same, apart from it, for the XY register when X or Y is included. There is one
\* speed line when there is a value and none otherwise, and the registers of the other
\* class stay.
C26_SpeedRegisters ==
    [][IsDispatchStep /\ IsMove(cmd') /\ ~HasUnsupportedAxis(cmd') /\ outcome' = "handled"
       /\ Has(cmd', "F") =>
          LET feed == cmd'.Name \in {"G1", "G01"}
              zk == IF feed THEN "MSZ" ELSE "JSZ"
              xyk == IF feed THEN "MSXY" ELSE "JSXY"
              f == IF Arguments.inches /\ ~Arguments.metric
                   THEN Frac(cmd'.Parameters["F"][1] * 10, cmd'.Parameters["F"][2] * 254)
                   ELSE cmd'.Parameters["F"]
              z == InAxis("Z", axis') /\ CurrentState[zk] # f
              xy == (InAxis("X", axis') \/ InAxis("Y", axis')) /\ CurrentState[xyk] # f
          IN  /\ CurrentState'[zk] = IF z THEN f ELSE CurrentState[zk]
              /\ CurrentState'[xyk] = IF xy THEN f ELSE CurrentState[xyk]
              /\ \A k \in {"MSZ", "JSZ", "MSXY", "JSXY"} \ {zk, xyk} :
                    CurrentState'[k] = CurrentState[k]
              /\ Cardinality(SpeedLines(emitted')) = IF z \/ xy THEN 1 ELSE 0
              /\ z \/ xy =>
                    LET line == StripEcho(emitted'[CHOOSE i \in SpeedLines(emitted') : TRUE])
                        fields == split(SubSeq(line, 3, Len(line)), ",")
                    IN  /\ line[1] = IF feed THEN "MS" ELSE "JS"
                        /\ Len(fields) = 2
                        /\ IF xy THEN Rendered(f, 6, fields[1]) ELSE fields[1] = <<>>
                        /\ IF z THEN Rendered(f, 6, fields[2]) ELSE fields[2] = <<>>]_vars

\* C26 reached: after a rapid move that has set the rapid registers, a feed move over Y
\* and Z whose Z is elided has set the XY register of the feed moves and left its Z
\* register
C26_Witness ==
    /\ MoveHandled /\ Has(cmd, "F") /\ cmd.Name = "G1" /\ Has(cmd, "Z")
    /\ axis = <<"Y">>
    /\ Cardinality(SpeedLines(emitted)) = 1
    /\ CurrentState["MSXY"] # Num(0) /\ CurrentState["MSZ"] = Num(0)
    /\ CurrentState["JSZ"] # Num(0)

(* --------------------- moves over C, U, V and W ------------------------ *)

\* C27: a rapid or feed move with C, U, V or W adds no text to the output, neither a
\* speed line nor a move line, whatever else it has; the four speed registers stay as
\* they are and the run goes on.
C27_UnsupportedAxisSilent ==
    [][IsDispatchStep /\ IsMove(cmd') /\ HasUnsupportedAxis(cmd') /\ outcome' # "elided" =>
          /\ outcome' = "handled"
          /\ emitted' = <<>>
          /\ pc' = "path" /\ error' = None
          /\ \A k \in {"MSZ", "JSZ", "MSXY", "JSXY"} : CurrentState'[k] = CurrentState[k]]_vars

\* C27 reached: a feed move with X, C and F has left the registers at 0 and the run
\* in its path
C27_Witness ==
    /\ outcome = "handled" /\ IsMove(cmd) /\ HasUnsupportedAxis(cmd)
    /\ Has(cmd, "F") /\ Has(cmd, "X")
    /\ emitted = <<>>
    /\ CurrentState["MSXY"] = Num(0)
    /\ pc = "path"

(* -------------------- the parameters kept in the state ----------------- *)

\* C28: after the handler of a command has been called and has returned, CurrentState
\* holds under every parameter letter of the command the value the command gives it,
\* whether the handler used it, and whether it wrote a line; a command elided as a
\* duplicate, an unknown command and an empty one leave CurrentState as it is.
C28_ParametersKept ==
    [][IsDispatchStep =>
          /\ outcome' = "handled" =>
                \A p \in DOMAIN cmd'.Parameters :
                    p \in DOMAIN CurrentState' /\ CurrentState'[p] = cmd'.Parameters[p]
          /\ outcome' \in {"elided", "unknown", "empty"} => CurrentState' = CurrentState]_vars

\* C28 reached: a move over X and C has written no line and has left both values
C28_Witness ==
    /\ outcome = "handled"
    /\ IsMove(cmd) /\ Has(cmd, "C")
    /\ emitted = <<>>
    /\ CurrentState["C"] = cmd.Parameters["C"]
    /\ CurrentState["X"] = cmd.Parameters["X"]

(* ------------------ a tool change without a tool controller ------------ *)

\* C29: a tool change handled while CurrentState holds no tool controller does not fail
\* the run: it gives its &Tool line and its &ToolName line, the name being the number
\* of the tool, and no VS line.
C29_NoController ==
    /\ outcome \in {"handled", "raised"} /\ IsToolChange(cmd) /\ Has(cmd, "T")
    /\ CurrentState["ToolController"] = None
    => /\ pc # "failed"
       /\ error = None
       /\ Cardinality(LinesWith(emitted, "&Tool=")) = 1
       /\ \E i \in LinesWith(emitted, "&ToolName=\"") :
              emitted[i] = <<"&ToolName=\"">> \o str(int(cmd.Parameters["T"])) \o <<"\"">>
       /\ LinesWith(emitted, "VS") = {}

(* ------------------------------ compounds ------------------------------ *)

\* a thing of a Group that has no Path
Stock == [Label |-> <<"Stock">>]

\* a compound of a tool controller, the stock and an operation
Compound ==
    [Label |-> <<"Job">>, Proxy |-> "Feature", Group |-> <<Controller, Stock, Operation>>]

\* a tool change, a command that is not known and a move
GroupCommands == {Cmd1("M6", "T", 1), Cmd("G55", {}), Cmd("G0", {"X"})}

GroupOptions == {"--comments", "--no-abort-on-unknown"}

NextGroup ==
    \/ Run(GroupOptions, {Operation}, GroupCommands, MaxCmds)
    \/ nobjs < MaxObjs /\ BeginGroup(Compound)
    \/ BeginMember
    \/ EndMember
    \/ EndGroup

SpecGroup == Loaded(TRUE) /\ [][NextGroup]_vars

\* the object whose commands are being translated
Leaf == IF InGroup THEN Head(todo) ELSE obj[1]

\* C30: while the commands of an object are translated, be it an object of objectslist
\* or a member of a Group, CurrentState holds it as the operation when it is an
\* operation and as the tool controller when it is a tool controller; so the error of
\* an unknown command in it names its label.
C30_LeafRemembered ==
    /\ pc = "path" =>
          /\ Leaf.Proxy = "ObjectOp" => CurrentState["Operation"] = <<Leaf>>
          /\ Leaf.Proxy = "ToolController" => CurrentState["ToolController"] = <<Leaf>>
    /\ pc = "failed" /\ outcome = "raised" /\ IsUnknown(cmd) /\ Leaf.Proxy = "ObjectOp" =>
          Within(Leaf.Label, error)

(* ----------------------- the axes that are not there ------------------- *)

\* C31: from the start of a run to its end CurrentState holds None under C, U, V and W,
\* whatever commands are translated, moves with these letters among them.
C31_AbsentAxesKept ==
    CurrentState # <<>> => \A k \in {"C", "U", "V", "W"} : CurrentState[k] = None

(* --------------------- registers and emitted speeds -------------------- *)

\* C32: each of the four speed registers holds the last speed written to the output for
\* its class of moves and its axes; so after a tool change that has written a VS line,
\* the register of every speed the line gives holds that speed.
C32_RegistersFollowOutput ==
    outcome = "handled" /\ IsToolChange(cmd) /\ LinesWith(emitted, "VS") # {} =>
        LET line == emitted[CHOOSE i \in LinesWith(emitted, "VS") : TRUE]
            fields == split(SubSeq(line, 3, Len(line)), ",")
            register == <<"MSXY", "MSZ", "", "", "JSXY", "JSZ">>
        IN  \A k \in DOMAIN fields :
                fields[k] # <<>> /\ register[k] # "" =>
                    format(CurrentState[register[k]], 4) = fields[k]

(* ------------------ the last command, from list to list ---------------- *)

InRun == {"preamble", "objects", "path", "group", "return-to", "postamble"}

\* C33: the raw text of the last handled command is kept for the whole run: between the
\* command lists of one run (preamble, operations, return-to move, postamble) no step
\* other than the handling of a command changes it, so that the first command of a list
\* is compared with the last command of the list before.
C33_CarriedAcrossLists ==
    [][(pc \in InRun /\ pc' \in InRun /\ ~IsDispatchStep) => (last_gcode' = last_gcode)]_vars

(* ------------------- the position, tracked and reached ----------------- *)

\* rapid and feed moves over X, Y, Z, A and B, a zero move, and the two mode commands
PositionCommands ==
    {Cmd("G0", {"X"}), Cmd("G1", {"X", "Y"}), Cmd1("G0", "X", 0), Cmd("G00", {"Z", "A"}),
     Cmd1("G01", "B", 7), Cmd("G91", {}), Cmd("G90", {})}

PositionOptions == {"--axis-modal", "--modal", "--inches"}

NextPosition == Run(PositionOptions, {PlainPath}, PositionCommands, MaxCmds)

SpecPosition == Loaded(TRUE) /\ [][NextPosition]_vars

\* C34: with --axis-modal, after every stream of rapid and feed moves over X, Y, Z, A, B,
\* G90 and G91 from the origin, the machine that runs the lines written (an axis a line
\* leaves out stays) stands where the commands read lead, and while the mode is Absolute
\* CurrentState holds that position.
C34_PositionKept ==
    pc = "path" /\ Arguments.axis_modal =>
        /\ machine.out = machine.inp
        /\ CurrentState["Absolute"] =>
              \A p \in DOMAIN machine.out : CurrentState[p] = machine.out[p]

(* ------------------------ runs in one process -------------------------- *)

\* C35: in every run, whatever runs came before it in the process, the unit conversion,
\* the precision and the list of exempted unknown commands are those that the run's own
\* argument string gives on a freshly loaded module, so that equal inputs and equal
\* arguments give equal texts.
C35_ArgumentsAlone ==
    pc # "idle" =>
        /\ GetValue = IF Arguments.inches /\ ~Arguments.metric
                      THEN "getImperialValue" ELSE "getMetricValue"
        /\ PRECISION = IF Arguments.precision # None THEN int_of_str(Arguments.precision)
                       ELSE IF Arguments.inches /\ ~Arguments.metric THEN 4 ELSE 3
        /\ SKIP_UNKNOWN = IF Arguments.skip_unknown # None
                          THEN split(Arguments.skip_unknown, ",") ELSE <<>>

(* ------------------- every set of axes has its line -------------------- *)

MaxAxisMoves == 2

\* a rapid move over every set of the five axes that is not empty, a zero move, a feed
\* move over all five, and the relative mode
AxisCommands ==
    {Cmd("G0", letters) : letters \in SUBSET {"X", "Y", "Z", "A", "B"} \ {{}}}
    \cup {Cmd1("G0", "X", 0), Cmd("G1", {"X", "Y", "Z", "A", "B"}), Cmd("G91", {})}

AxisOptions == {"--axis-modal", "--gcode-comments"}

NextAxes == Run(AxisOptions, {PlainPath}, AxisCommands, MaxAxisMoves)

SpecAxes == Loaded(TRUE) /\ [][NextAxes]_vars

\* C36: a handled move writes exactly one move line when the set of its included axes
\* is not empty, whichever of the subsets of X, Y, Z, A, B it is, and none when it is
\* empty: no set of included axes is left without a line.
C36_EverySetHasItsLine ==
    MoveHandled => Cardinality(MoveLines(emitted)) = (IF axis # <<>> THEN 1 ELSE 0)

\* a move over Y and Z alone, which has no line of its own and takes the one of three slots
C36_Witness ==
    /\ MoveHandled
    /\ axis = <<"Y", "Z">>
    /\ Cardinality(MoveLines(emitted)) = 1

(* ------------------------- what reaches the file ----------------------- *)

\* C37: the file is written only by the step that ends a run well, once, with the text
\* the run returns; a run that fails, at its first command or after stages and commands
\* that have produced text, returns nothing and leaves the file as it was.
C37_WrittenAtTheEnd ==
    [][/\ sink' # sink => pc # "done" /\ pc' = "done" /\ sink' = final'
       /\ pc' = "failed" => sink' = sink /\ final' = None
       /\ pc = "done" => sink' = sink]_vars

\* C37 reached: the second run has failed at a command that is not known, after a
\* command that has produced text, and the file is as the first run has written it
C37_Witness ==
    /\ pc = "failed"
    /\ outcome = "raised" /\ cmd.Name = "G55"
    /\ ncmds > 1
    /\ final = None
    /\ nruns = 1
    /\ sink # None

(* --------------------- the mode of the return-to move ------------------ *)

\* C38: whenever the return-to step writes a move line, the mode is Absolute, so that
\* the line takes the machine to the coordinates of --return-to; also when the last
\* object or the preamble has left the mode Relative.
C38_ReturnAbsolute ==
    pc = "return-to" /\ outcome = "handled" /\ MoveLines(emitted) # {} =>
        CurrentState["Absolute"]

(* ------------------------ a command said twice ------------------------- *)

\* C39: with --modal and the mode Absolute, a command of a list that comes again
\* right after itself adds nothing: no text, no change of CurrentState or of the last
\* raw text, no end of the run; so the list with every command doubled gives the text
\* and the final state of the list itself.
C39_RepetitionAddsNothing ==
    [][(IsDispatchStep /\ cmd # None /\ cmd' = cmd /\ Arguments.modal
          /\ CurrentState["Absolute"]) =>
       (/\ emitted' = <<>>
        /\ CurrentState' = CurrentState
        /\ last_gcode' = last_gcode
        /\ ntool' = ntool
        /\ pc' = pc /\ error' = error)]_vars

\* C39 reached: a tool change has come twice in a row and the second one was skipped
C39_Witness ==
    /\ outcome = "elided"
    /\ IsToolChange(cmd) /\ dup
    /\ Arguments.modal
    /\ ntool = 1
    /\ CurrentState["Tool"] = cmd.Parameters["T"]
    /\ emitted = <<>>

(* -------------------- a speed line and its move line ------------------- *)

\* C40: in the text of a handled move every JS or MS line is followed at once by a move
\* line of the same move; and a move none of whose axes is included writes no JS or MS
\* line and leaves the four speed registers as they were, also when it has an F.
C40_SpeedLineFollowed ==
    [][(IsDispatchStep /\ IsMove(cmd') /\ outcome' = "handled") =>
       (/\ \A i \in SpeedLines(emitted') : i + 1 \in MoveLines(emitted')
        /\ axis' = <<>> =>
              /\ SpeedLines(emitted') = {}
              /\ \A k \in {"MSZ", "JSZ", "MSXY", "JSXY"} :
                    CurrentState'[k] = CurrentState[k])]_vars

\* C40 reached: a feed move over X with a new F, its X elided, has written nothing and
\* has left the register of the feed moves at 0
C40_Witness ==
    /\ MoveHandled /\ cmd.Name = "G1"
    /\ Has(cmd, "X") /\ Has(cmd, "F")
    /\ axis = <<>>
    /\ emitted = <<>>
    /\ CurrentState["MSXY"] = Num(0)
    /\ CurrentState["F"] = cmd.Parameters["F"]

====
